---- MODULE Spec2Model ----
(***************************************************************************)
(* Model of the pricing and overtime-allocation pipelines of               *)
(* attica_invoice: the price sheet and its as-of join, the salt overtime   *)
(* allocator, the scalar-price pipelines and the flat two-tier pipelines.  *)
(*                                                                         *)
(* Conventions of the model                                                *)
(*   - a Float64 is an exact rational [k, n, d]: k = "fin" with n/d in     *)
(*     lowest terms and d > 0, k = "nan", k = "inf" (n is the sign) or     *)
(*     k = "null" (a polars null).  Rounding error is not modelled.        *)
(*   - a DD/MM/YYYY string is the tuple <<dd, mm, yyyy>>; str.to_date      *)
(*     turns it into the number of days since 01/01/0001 (date.toordinal). *)
(*   - a HH:MM:SS string is the tuple <<hh, mm>>; str.to_time turns it     *)
(*     into minutes since midnight; a Duration is a number of minutes.     *)
(*   - a LazyFrame is a sequence of records, one per row, in row order.    *)
(***************************************************************************)
EXTENDS Integers, Sequences, FiniteSets, TLC

(***************************************************************************)
(* Float64 arithmetic                                                      *)
(***************************************************************************)
Abs(x) == IF x < 0 THEN -x ELSE x

RECURSIVE GCD(_, _)
GCD(a, b) == IF b = 0 THEN a ELSE GCD(b, a % b)

Sign(x) == IF x < 0 THEN -1 ELSE IF x > 0 THEN 1 ELSE 0

Null == [k |-> "null", n |-> 0, d |-> 1]

NaN == [k |-> "nan", n |-> 0, d |-> 1]

Inf(s) == [k |-> "inf", n |-> s, d |-> 1]

\* the exception of a subscript [0] on an empty Series, in place of the value
IndexError == [k |-> "IndexError", n |-> 0, d |-> 1]

\* the float n/d; a zero denominator gives NaN (0/0) or a signed infinity
F(n, d) ==
  IF d = 0 THEN (IF n = 0 THEN NaN ELSE Inf(Sign(n)))
  ELSE LET g == GCD(Abs(n), Abs(d))
           s == Sign(d)
       IN  [k |-> "fin", n |-> (s * n) \div g, d |-> (s * d) \div g]

Lit(n) == F(n, 1)

IsFin(x) == x.k = "fin"

FMul(x, y) ==
  IF x.k = "null" \/ y.k = "null" THEN Null
  ELSE IF x.k = "nan" \/ y.k = "nan" THEN NaN
  ELSE IF x.k = "inf" \/ y.k = "inf"
       THEN (IF x.n = 0 \/ y.n = 0 THEN NaN ELSE Inf(Sign(x.n) * Sign(y.n)))
  ELSE F(x.n * y.n, x.d * y.d)

FAdd(x, y) ==
  IF x.k = "null" \/ y.k = "null" THEN Null
  ELSE IF x.k = "nan" \/ y.k = "nan" THEN NaN
  ELSE IF x.k = "inf" /\ y.k = "inf" THEN (IF x.n = y.n THEN x ELSE NaN)
  ELSE IF x.k = "inf" THEN x
  ELSE IF y.k = "inf" THEN y
  ELSE F(x.n * y.d + y.n * x.d, x.d * y.d)

FNeg(x) == IF x.k \in {"fin", "inf"} THEN [x EXCEPT !.n = -x.n] ELSE x

FSub(x, y) == FAdd(x, FNeg(y))

\* Duration / Duration (true division, Float64)
DurDiv(a, b) == F(a, b)

(***************************************************************************)
(* Dates and times                                                         *)
(***************************************************************************)
IsLeap(y) == ((y % 4) = 0 /\ (y % 100) # 0) \/ (y % 400) = 0

DaysInMonth(y, m) ==
  IF m = 2 THEN (IF IsLeap(y) THEN 29 ELSE 28)
  ELSE IF m \in {4, 6, 9, 11} THEN 30 ELSE 31

RECURSIVE DaysBeforeMonth(_, _)
DaysBeforeMonth(y, m) ==
  IF m = 1 THEN 0 ELSE DaysBeforeMonth(y, m - 1) + DaysInMonth(y, m - 1)

DaysBeforeYear(y) ==
  LET p == y - 1 IN p * 365 + (p \div 4) - (p \div 100) + (p \div 400)

\* datetime.date(y, m, d) as its proleptic Gregorian ordinal
Date(y, m, d) == DaysBeforeYear(y) + DaysBeforeMonth(y, m) + d

\* str.to_date(format="%d/%m/%Y")
ToDate(s) == Date(s[3], s[2], s[1])

\* date.weekday(): Monday = 0 .. Sunday = 6
Weekday(o) == (o + 6) % 7

\* dt.to_string(format="%a")
WeekdayName(o) ==
  LET w == Weekday(o)
  IN  IF w = 0 THEN "Mon" ELSE IF w = 1 THEN "Tue" ELSE IF w = 2 THEN "Wed"
      ELSE IF w = 3 THEN "Thu" ELSE IF w = 4 THEN "Fri"
      ELSE IF w = 5 THEN "Sat" ELSE "Sun"

\* str.to_time(format="%H:%M:%S"), in minutes since midnight
ToTime(s) == s[1] * 60 + s[2]

\* a DD/MM/YYYY string as a number ordered like the string itself (the fields
\* have a fixed width, so strings compare field by field, day first)
StrKey(s) == (s[1] * 100 + s[2]) * 10000 + s[3]

UPPER_BOUND_SPECIAL_DAY == 960

UPPER_BOUND == 1020

MORNING_CUTOFF == 479

\* pl.duration(days=1), in minutes
ONE_DAY == 1440

NULL_DURATION == 0

SPECIAL_DAYS == {"PH", "Sun"}

\* Year.min_year and Year.max_year
min_year == 2000

max_year == 3000

\* variant: __get_public_holidays(year) without the Monday that follows a
\* fixed holiday falling on a Sunday
Mut_get_public_holidays(year) ==
  LET fixed_holidays ==
        { Date(year, 1, 1), Date(year, 1, 2), Date(year, 5, 1),
          Date(year, 6, 18), Date(year, 6, 29), Date(year, 8, 15),
          Date(year, 11, 1), Date(year, 12, 8), Date(year, 12, 25) }
      a == year % 19
      b == year \div 100
      c == year % 100
      d == (19 * a + b - (b \div 4) - ((b - ((b + 8) \div 25) + 1) \div 3) + 15) % 30
      e == (32 + 2 * (b % 4) + 2 * (c \div 4) - d - (c % 4)) % 7
      f == d + e - (7 * ((a + 11 * d + 22 * e) \div 451)) + 114
      easter_date == Date(year, f \div 31, (f % 31) + 1)
  IN  fixed_holidays
        \cup { easter_date, easter_date + 1, easter_date - 1, easter_date - 2,
               easter_date + 60 }

\* DayName.__get_public_holidays(year)
get_public_holidays(year) ==
  LET fixed_holidays ==
        { Date(year, 1, 1), Date(year, 1, 2), Date(year, 5, 1),
          Date(year, 6, 18), Date(year, 6, 29), Date(year, 8, 15),
          Date(year, 11, 1), Date(year, 12, 8), Date(year, 12, 25) }
      a == year % 19
      b == year \div 100
      c == year % 100
      d == (19 * a + b - (b \div 4) - ((b - ((b + 8) \div 25) + 1) \div 3) + 15) % 30
      e == (32 + 2 * (b % 4) + 2 * (c \div 4) - d - (c % 4)) % 7
      f == d + e - (7 * ((a + 11 * d + 22 * e) \div 451)) + 114
      month == f \div 31
      day == (f % 31) + 1
      easter_date == Date(year, month, day)
  IN  fixed_holidays
        \cup { easter_date, easter_date + 1, easter_date - 1, easter_date - 2,
               easter_date + 60 }
        \cup { h + 1 : h \in { x \in fixed_holidays : Weekday(x) = 6 } }

\* sorted(public_holidays): the dates in ascending order
RECURSIVE SortedList(_)
SortedList(S) ==
  IF S = {} THEN <<>>
  ELSE LET first == CHOOSE x \in S : \A y \in S : x <= y
       IN  <<first>> \o SortedList(S \ {first})

\* DayName.public_holiday_series(year)
public_holiday_series(year) ==
  get_public_holidays(year - 1) \cup get_public_holidays(year)
    \cup get_public_holidays(year + 1)

(***************************************************************************)
(* The price sheet (data/price.py) and the scalar prices of shore handling *)
(* LazyFrame.filter keeps the rows that satisfy a predicate, in row order: *)
(* SelectSeq.                                                              *)
(***************************************************************************)

\* get_price(service): the rows of the price sheet whose Service is listed, in
\* sheet order, with the columns Service, Price and Date (StartingDate, a string)
get_price(sheet, service) ==
  LET keep(r) == r.Service \in service
  IN  SelectSeq(sheet, keep)

SALT_SERVICES == {"Loading (Quay to Ship)", "Loading @ Zone 14"}

CCCS_MOVEMENT == "CCCS Movement in/out"

\* data_source of shore_handling.price_list(): the three services asked for
shore_price(sheet) == get_price(sheet, {CCCS_MOVEMENT} \cup SALT_SERVICES)

\* price_list()["salt_price"]: element [0] of the filtered Price column; the
\* subscript raises IndexError on an empty column
salt_price(sheet) ==
  LET keep(r) == r.Service \in SALT_SERVICES
      col == SelectSeq(shore_price(sheet), keep)
  IN  IF col = <<>> THEN IndexError ELSE Lit(col[1].Price)

\* price_list()["bin_tipping_price"]
bin_tipping_price(sheet) ==
  LET keep(r) == r.Service = CCCS_MOVEMENT
      col == SelectSeq(shore_price(sheet), keep)
  IN  IF col = <<>> THEN IndexError ELSE Lit(col[1].Price)

\* OvertimePerc
normal_hour == Lit(1)

overtime_150 == F(3, 2)

overtime_200 == Lit(2)

(***************************************************************************)
(* The salt overtime allocator (dataframe/shore_handling.py).  A row r has *)
(* day_name, date (ordinal), start_time and end_time (minutes), tonnage.   *)
(***************************************************************************)
is_special_day(r) == r.day_name \in SPECIAL_DAYS

is_not_special_day(r) == ~is_special_day(r)

before_cut_off_normal_day(r) ==
  r.end_time < UPPER_BOUND /\ r.start_time < UPPER_BOUND

end_time_after_cut_off(r) ==
  r.end_time > UPPER_BOUND /\ r.start_time < UPPER_BOUND

\* variant: the start exactly on the cutoff is left out
Mut_start_after_cut_off_normal_day(r) ==
  r.end_time > UPPER_BOUND /\ r.start_time > UPPER_BOUND

start_after_cut_off_normal_day(r) ==
  r.end_time > UPPER_BOUND /\ r.start_time >= UPPER_BOUND

stop_after_cut_off_normal_day(r) ==
  r.end_time > UPPER_BOUND /\ r.start_time < UPPER_BOUND

start_after_cut_off_special_day(r) ==
  r.end_time > UPPER_BOUND_SPECIAL_DAY /\ r.start_time >= UPPER_BOUND_SPECIAL_DAY

stop_after_cut_off_special_day(r) ==
  r.end_time > UPPER_BOUND_SPECIAL_DAY /\ r.start_time < UPPER_BOUND_SPECIAL_DAY

stop_before_cut_off_special_day(r) ==
  r.end_time <= UPPER_BOUND_SPECIAL_DAY /\ r.start_time < UPPER_BOUND_SPECIAL_DAY

after_midnight(r) ==
  r.end_time < r.start_time /\ r.end_time <= MORNING_CUTOFF

\* date.dt.combine(time), in minutes since the epoch of the ordinals
Combine(date, time) == date * ONE_DAY + time

hours_after_cut_off_normal_day(r) ==
  Combine(r.date, r.end_time) - Combine(r.date, UPPER_BOUND)

hours_after_cut_off_special_day(r) ==
  Combine(r.date, r.end_time) - Combine(r.date, UPPER_BOUND_SPECIAL_DAY)

normal_duration_special_day(r) ==
  Combine(r.date, UPPER_BOUND_SPECIAL_DAY) - Combine(r.date, r.start_time)

\* variant: the special-day cutoff used on a normal day
Mut_normal_duration(r) ==
  Combine(r.date, UPPER_BOUND_SPECIAL_DAY) - Combine(r.date, r.start_time)

normal_duration(r) ==
  Combine(r.date, UPPER_BOUND) - Combine(r.date, r.start_time)

durations(r) == Combine(r.date, r.end_time) - Combine(r.date, r.start_time)

\* the second binding of the name (line 136), the one in force when salt() runs
duration_after_midnight(r) ==
  Combine(r.date + 1, r.end_time) - Combine(r.date, r.start_time)

before_upper_bound_portion(r) ==
  IF after_midnight(r) /\ is_not_special_day(r) /\ r.start_time < UPPER_BOUND
  THEN Combine(r.date, UPPER_BOUND) - Combine(r.date, r.start_time)
  ELSE 0

after_upper_bound_until_midnight(r) ==
  IF after_midnight(r) /\ is_not_special_day(r) /\ r.start_time < UPPER_BOUND
  THEN Combine(r.date + 1, 0) - Combine(r.date, UPPER_BOUND)
  ELSE IF after_midnight(r) /\ is_not_special_day(r) /\ r.start_time >= UPPER_BOUND
  THEN Combine(r.date + 1, 0) - Combine(r.date, r.start_time)
  ELSE 0

portion_after_midnight(r) ==
  IF after_midnight(r)
  THEN Combine(r.date + 1, r.end_time) - Combine(r.date + 1, 0)
  ELSE 0

\* first with_columns of salt(): the four duration columns and total_duration
salt_normal(r) ==
  IF after_midnight(r) /\ is_not_special_day(r) THEN before_upper_bound_portion(r)
  ELSE IF is_not_special_day(r) /\ end_time_after_cut_off(r) /\ ~after_midnight(r)
  THEN normal_duration(r)
  ELSE IF is_not_special_day(r) /\ before_cut_off_normal_day(r) /\ ~after_midnight(r)
  THEN durations(r)
  ELSE 0

salt_normal_150(r) ==
  IF after_midnight(r) /\ is_not_special_day(r)
  THEN after_upper_bound_until_midnight(r)
  ELSE IF is_not_special_day(r) /\ start_after_cut_off_normal_day(r) /\ ~after_midnight(r)
  THEN durations(r)
  ELSE IF is_not_special_day(r) /\ stop_after_cut_off_normal_day(r) /\ ~after_midnight(r)
  THEN hours_after_cut_off_normal_day(r)
  ELSE 0

salt_sun_150(r) ==
  IF is_special_day(r) /\ stop_after_cut_off_special_day(r) /\ ~after_midnight(r)
  THEN normal_duration_special_day(r)
  ELSE IF is_special_day(r) /\ stop_before_cut_off_special_day(r) /\ ~after_midnight(r)
  THEN durations(r)
  ELSE IF is_special_day(r) /\ after_midnight(r)
          /\ r.start_time < UPPER_BOUND_SPECIAL_DAY
  THEN Combine(r.date, UPPER_BOUND_SPECIAL_DAY) - Combine(r.date, r.start_time)
  ELSE 0

\* variant: on a special day only the time after midnight is at 200%
Mut_salt_overtime_200(r) ==
  IF is_special_day(r) /\ start_after_cut_off_special_day(r) /\ ~after_midnight(r)
  THEN durations(r)
  ELSE IF is_special_day(r) /\ stop_after_cut_off_special_day(r) /\ ~after_midnight(r)
  THEN hours_after_cut_off_special_day(r)
  ELSE IF after_midnight(r)
  THEN portion_after_midnight(r)
  ELSE 0

salt_overtime_200(r) ==
  IF is_special_day(r) /\ start_after_cut_off_special_day(r) /\ ~after_midnight(r)
  THEN durations(r)
  ELSE IF is_special_day(r) /\ stop_after_cut_off_special_day(r) /\ ~after_midnight(r)
  THEN hours_after_cut_off_special_day(r)
  ELSE IF is_special_day(r) /\ after_midnight(r)
  THEN (IF r.start_time >= UPPER_BOUND_SPECIAL_DAY
        THEN duration_after_midnight(r)
        ELSE Combine(r.date + 1, r.end_time) - Combine(r.date, UPPER_BOUND_SPECIAL_DAY))
  ELSE IF is_not_special_day(r) /\ after_midnight(r)
  THEN portion_after_midnight(r)
  ELSE 0

salt_total_duration(r) ==
  IF after_midnight(r) THEN duration_after_midnight(r) ELSE durations(r)

\* the divisor of the second with_columns
salt_divisor(r) ==
  IF after_midnight(r) THEN salt_total_duration(r) ELSE durations(r)

\* second and third with_columns of salt(): the tonnage shares and the price
salt_row(r, price) ==
  LET t   == Lit(r.tonnage)
      n   == FMul(DurDiv(salt_normal(r), salt_divisor(r)), t)
      o15 == FAdd(FMul(DurDiv(salt_normal_150(r), salt_divisor(r)), t),
                  FMul(DurDiv(salt_sun_150(r), salt_divisor(r)), t))
      o20 == FMul(DurDiv(salt_overtime_200(r), salt_divisor(r)), t)
  IN  [ day_name |-> r.day_name, date |-> r.date,
        start_time |-> r.start_time, end_time |-> r.end_time,
        operation_type |-> r.operation_type, tonnage |-> r.tonnage,
        normal |-> n, overtime_150 |-> o15, overtime_200 |-> o20,
        price |-> FAdd(FAdd(FMul(FMul(n, price), normal_hour),
                            FMul(FMul(o15, price), overtime_150)),
                       FMul(FMul(o20, price), overtime_200)) ]

\* the select of salt(): the string columns parsed into dates and times
salt_select(x) ==
  [ day_name |-> x.day_name, date |-> ToDate(x.date),
    start_time |-> ToTime(x.start_time), end_time |-> ToTime(x.end_time),
    operation_type |-> x.operation_type, tonnage |-> x.tonnage ]

\* salt(): the frame of the salt sheet, or the IndexError of price_list()
salt_frame(rows, sheet) ==
  IF salt_price(sheet) = IndexError
  THEN [status |-> "IndexError", rows |-> <<>>]
  ELSE [status |-> "ok",
        rows |-> [i \in 1..Len(rows) |->
                    salt_row(salt_select(rows[i]), salt_price(sheet))]]

\* the timedelta of a duration column rendered as HH:MM by format_as_hhmm:
\* total_seconds() // 3600 and (total_seconds() % 3600) // 60, both floored
duration_to_hhmm(minutes) ==
  [hh |-> (minutes * 60) \div 3600, mm |-> ((minutes * 60) % 3600) \div 60]

forklift_total_duration(r) ==
  IF after_midnight(r) THEN duration_after_midnight(r) ELSE durations(r)

forklift_overtime_for_normal_services(r) ==
  LET special == r.day_name \in SPECIAL_DAYS
      am      == after_midnight(r)
  IN  IF am /\ ~special /\ r.start_time > UPPER_BOUND
      THEN Combine(r.date + 1, 0) - Combine(r.date, r.start_time)
      ELSE IF am /\ ~special /\ r.start_time <= UPPER_BOUND
      THEN Combine(r.date + 1, 0) - Combine(r.date, UPPER_BOUND)
      ELSE IF ~special /\ r.end_time > UPPER_BOUND /\ r.start_time > UPPER_BOUND /\ ~am
      THEN Combine(r.date, r.end_time) - Combine(r.date, r.start_time)
      ELSE IF ~special /\ r.end_time > UPPER_BOUND /\ ~am
      THEN Combine(r.date, r.end_time) - Combine(r.date, UPPER_BOUND)
      ELSE IF special /\ r.end_time < UPPER_BOUND_SPECIAL_DAY
                      /\ r.start_time < UPPER_BOUND_SPECIAL_DAY /\ ~am
      THEN Combine(r.date, r.end_time) - Combine(r.date, r.start_time)
      ELSE IF special /\ r.end_time > UPPER_BOUND_SPECIAL_DAY
                      /\ r.start_time < UPPER_BOUND_SPECIAL_DAY /\ ~am
      THEN Combine(r.date, UPPER_BOUND_SPECIAL_DAY) - Combine(r.date, r.start_time)
      ELSE IF am /\ special /\ r.start_time < UPPER_BOUND_SPECIAL_DAY
      THEN Combine(r.date, UPPER_BOUND_SPECIAL_DAY) - Combine(r.date, r.start_time)
      ELSE NULL_DURATION

forklift_overtime_for_extended_services(r) ==
  LET special == r.day_name \in SPECIAL_DAYS
      am      == after_midnight(r)
  IN  IF am /\ ~special
      THEN Combine(r.date + 1, r.end_time) - Combine(r.date + 1, 0)
      ELSE IF am /\ special /\ r.start_time >= UPPER_BOUND_SPECIAL_DAY
      THEN duration_after_midnight(r)
      ELSE IF am /\ special /\ r.start_time < UPPER_BOUND_SPECIAL_DAY
      THEN Combine(r.date + 1, r.end_time) - Combine(r.date, UPPER_BOUND_SPECIAL_DAY)
      ELSE IF special /\ r.end_time > UPPER_BOUND_SPECIAL_DAY
                      /\ r.start_time > UPPER_BOUND_SPECIAL_DAY /\ ~am
      THEN Combine(r.date, r.end_time) - Combine(r.date, r.start_time)
      ELSE IF special /\ r.end_time > UPPER_BOUND_SPECIAL_DAY /\ ~am
      THEN Combine(r.date, r.end_time) - Combine(r.date, UPPER_BOUND_SPECIAL_DAY)
      ELSE NULL_DURATION

\* the second with_columns of forklift_salt()
forklift_normal_hour_services(r) ==
  IF after_midnight(r)
  THEN IF r.day_name \notin SPECIAL_DAYS /\ r.start_time < UPPER_BOUND
       THEN Combine(r.date, UPPER_BOUND) - Combine(r.date, r.start_time)
       ELSE IF r.day_name \in SPECIAL_DAYS /\ r.start_time < UPPER_BOUND_SPECIAL_DAY
       THEN Combine(r.date, UPPER_BOUND_SPECIAL_DAY) - Combine(r.date, r.start_time)
       ELSE NULL_DURATION
  ELSE forklift_total_duration(r)
       - (forklift_overtime_for_normal_services(r)
          + forklift_overtime_for_extended_services(r))

\* forklift_salt(): the rows of salt() other than the loadings at zone 14,
\* with the four duration columns in HH:MM
forklift_salt_frame(rows, sheet) ==
  LET df   == salt_frame(rows, sheet)
      kept == SelectSeq(df.rows, LAMBDA r : r.operation_type # "Loading @ Zone 14")
      Row(r) ==
        [ day |-> r.day_name, date |-> r.date,
          start_time |-> r.start_time, end_time |-> r.end_time,
          total_duration |-> duration_to_hhmm(forklift_total_duration(r)),
          overtime_for_normal_services |->
            duration_to_hhmm(forklift_overtime_for_normal_services(r)),
          overtime_for_extended_services |->
            duration_to_hhmm(forklift_overtime_for_extended_services(r)),
          normal_hour_services |->
            duration_to_hhmm(forklift_normal_hour_services(r)) ]
  IN  IF df.status # "ok" THEN df
      ELSE [status |-> "ok", rows |-> [i \in 1..Len(kept) |-> Row(kept[i])]]

(***************************************************************************)
(* LazyFrame.sort and LazyFrame.join_asof(strategy="backward", by=...)     *)
(***************************************************************************)
\* insertion of a row into a sorted frame, after the rows of equal key
RECURSIVE InsertByKey(_, _)
InsertByKey(row, sorted) ==
  IF sorted = <<>> THEN <<row>>
  ELSE IF Head(sorted).on <= row.on
       THEN <<Head(sorted)>> \o InsertByKey(row, Tail(sorted))
       ELSE <<row>> \o sorted

\* sort(by="date"): the rows in ascending order of the field on, which holds
\* the sort and join key of the row
RECURSIVE SortBy(_)
SortBy(rows) ==
  IF rows = <<>> THEN <<>>
  ELSE InsertByKey(rows[Len(rows)], SortBy(SubSeq(rows, 1, Len(rows) - 1)))

\* the indices of the right rows of one by-group, in row order
RECURSIVE GroupIdx(_, _, _)
GroupIdx(right, g, j) ==
  IF j > Len(right) THEN <<>>
  ELSE IF right[j].by = g THEN <<j>> \o GroupIdx(right, g, j + 1)
       ELSE GroupIdx(right, g, j + 1)

\* AsofJoinBackwardState.next: the scan offset moves on while the right key is
\* <= the left key, and the last such position is the match; st = <<scan
\* offset, best bound>>, positions count from 1 and a best bound of 0 is none
RECURSIVE AsofNext(_, _, _, _)
AsofNext(st, left_val, right, idxs) ==
  IF st[1] <= Len(idxs) /\ right[idxs[st[1]]].on <= left_val
  THEN AsofNext(<<st[1] + 1, st[1]>>, left_val, right, idxs)
  ELSE st

\* the left rows lo..hi of one thread, each group keeping its scan state from
\* one left row to the next; the result holds the index of the matched right
\* row of every left row, 0 for none (a null)
RECURSIVE AsofChunk(_, _, _, _, _)
AsofChunk(left, right, i, hi, states) ==
  IF i > hi THEN <<>>
  ELSE LET g    == left[i].by
           idxs == GroupIdx(right, g, 1)
           st   == AsofNext(states[g], left[i].on, right, idxs)
           hit  == IF st[2] = 0 THEN 0 ELSE idxs[st[2]]
       IN  <<hit>> \o AsofChunk(left, right, i + 1, hi, [states EXCEPT ![g] = st])

\* the left frame split over n threads (_split_offsets): n - 1 chunks of
\* len \div n rows and the rest in the last
RECURSIVE AsofThreads(_, _, _, _)
AsofThreads(left, right, p, n) ==
  LET size   == Len(left) \div n
      lo     == (p - 1) * size + 1
      hi     == IF p = n THEN Len(left) ELSE p * size
      groups == { left[i].by : i \in 1..Len(left) }
      fresh  == [g \in groups |-> <<1, 0>>]
  IN  IF p > n THEN <<>>
      ELSE AsofChunk(left, right, lo, hi, fresh) \o AsofThreads(left, right, p + 1, n)

\* join_asof(by=, left_on=, right_on=, strategy="backward") of frames whose
\* rows carry the fields by and on; neither frame is sorted or checked here
join_asof(left, right, n_threads) == AsofThreads(left, right, 1, n_threads)

\* the Price column a join_asof attaches: the matched price or a null
AsofPrice(right, hit) == IF hit = 0 THEN Null ELSE Lit(right[hit].Price)

\* a price frame with its Date column parsed by str.to_date, keyed for the join
PriceKeyed(price) ==
  [j \in 1..Len(price) |->
     [by |-> price[j].Service, on |-> ToDate(price[j].Date), Price |-> price[j].Price]]

\* variant: add_day_name_col naming a Sunday before looking at the holidays
Mut_add_day_name_col(date, year) ==
  IF WeekdayName(date) = "Sun" THEN "Sun"
  ELSE IF date \in public_holiday_series(year) THEN "PH" ELSE WeekdayName(date)

\* add_day_name_col with ph_list = DayName.public_holiday_series(CURRENT_YEAR)
add_day_name_col(date, year) ==
  IF date \in public_holiday_series(year) THEN "PH" ELSE WeekdayName(date)

(***************************************************************************)
(* The flat two-tier pipelines of dataframe/miscellaneous.py.  A row of    *)
(* the CCCSReport sheet has day, date, movement_type, customer, vessel,    *)
(* operation_type, total_tonnage, static_loader and overtime_tonnage.      *)
(***************************************************************************)
MISC_SERVICES ==
  { "Tipping Truck", "Loading to Cargo", "CCCS Movement in/out", "Cross Stuffing",
    "Unstuffing by Hand", "Unstuffing to Cargo", "Unstuffing to CCCS",
    "CCCS (By-Catch)", "Transfer of by-catch", "Shore Crane & Fishloader",
    "Shore Crane & Fishloader (by catch)", "Static Loader",
    "Container Stuffing by Hand", "Container Stuffing with Forklift" }

CROSS_STUFFING_SERVICES ==
  { "Cross Stuffing", "Unstuffing by Hand", "Unstuffing to Cargo", "Unstuffing to CCCS" }

BY_CATCH_SERVICES == { "CCCS (By-Catch)", "Transfer of by-catch" }

CCCS_STUFFING_SERVICES ==
  { "Shore Crane & Fishloader", "Shore Crane & Fishloader (by catch)",
    "Static Loader", "Container Stuffing by Hand", "Container Stuffing with Forklift" }

UNLOADING_SERVICE == { "Sorting from Unloading", "Unsorted from Unloading" }

CARGO_DISPATCH_SERVICE == { "Dispatch to Cargo Vessel", "Dispatch from Cargo Vessel" }

BIN_DISPATCH_SERVICE == { "Bin Dispatch to IOT", "Bin Dispatch from IOT" }

client_shore_cost == { "DARDANEL", "IOT" }

DARDANEL_DISCOUNT == 4

\* miscellaneous.price_list(): the frames filtered out of get_price(...)
misc_price(sheet) == get_price(sheet, MISC_SERVICES)

price_of(sheet, services) ==
  LET keep(r) == r.Service \in services
  IN  PriceKeyed(SelectSeq(misc_price(sheet), keep))

\* price_list()["cccs_movement_fee"]: element [0] of the Price column
cccs_movement_fee(sheet) ==
  LET keep(r) == r.Service = CCCS_MOVEMENT
      col == SelectSeq(misc_price(sheet), keep)
  IN  IF col = <<>> THEN IndexError ELSE Lit(col[1].Price)

\* data_source.all_dataframe.miscellaneous(): the date column parsed
miscellaneous(rows) ==
  [i \in 1..Len(rows) |-> [rows[i] EXCEPT !.date = ToDate(rows[i].date)]]

\* str.contains("IOT") over the operation types of the sheet
ContainsIOT(op) == op \in BIN_DISPATCH_SERVICE

\* static_loader_total with the overtime of a special day billed at 150%
Mut_static_loader_total(day, tonnage, overtime, Price) ==
  IF day \in SPECIAL_DAYS
  THEN FAdd(FMul(FMul(Price, FSub(tonnage, overtime)), overtime_150),
            FMul(FMul(Price, overtime), overtime_150))
  ELSE FAdd(FMul(FMul(Price, FSub(tonnage, overtime)), normal_hour),
            FMul(FMul(Price, overtime), overtime_150))

\* total_price of static_loader
static_loader_total(day, tonnage, overtime, Price) ==
  IF day \in SPECIAL_DAYS
  THEN FAdd(FMul(FMul(Price, FSub(tonnage, overtime)), overtime_150),
            FMul(FMul(Price, overtime), overtime_200))
  ELSE FAdd(FMul(FMul(Price, FSub(tonnage, overtime)), normal_hour),
            FMul(FMul(Price, overtime), overtime_150))

\* static_loader(): select, two filters, sort, join_asof, total_price
static_loader_frame(rows, sheet, n_threads) ==
  LET loaded(x) == x.static_loader > 0 /\ ContainsIOT(x.operation_type)
      key(x) ==
        [ day |-> x.day, date |-> x.date, customer |-> x.customer,
          operation_type |-> x.operation_type, static_loader |-> x.static_loader,
          overtime_tonnage |-> x.overtime_tonnage,
          by |-> "Static Loader", on |-> x.date ]
      out(x, Price) ==
        [ day |-> x.day, date |-> x.date, customer |-> x.customer,
          operation_type |-> x.operation_type, static_loader |-> x.static_loader,
          overtime_tonnage |-> x.overtime_tonnage, Service |-> x.by, Price |-> Price,
          total_price |->
            static_loader_total(x.day, Lit(x.static_loader),
                                Lit(x.overtime_tonnage), Price) ]
      kept  == SelectSeq(miscellaneous(rows), loaded)
      left  == SortBy([i \in 1..Len(kept) |-> key(kept[i])])
      right == price_of(sheet, {"Static Loader"})
      hits  == join_asof(left, right, n_threads)
  IN  IF cccs_movement_fee(sheet) = IndexError
      THEN [status |-> "IndexError", rows |-> <<>>]
      ELSE [status |-> "ok",
            rows |-> [i \in 1..Len(left) |-> out(left[i], AsofPrice(right, hits[i]))]]

\* total_price of dispatch_to_cargo, cross_stuffing, by_catch and cccs_stuffing
tonnage_total(day, normal_tonnage, overtime, price) ==
  IF day \in SPECIAL_DAYS
  THEN FAdd(FMul(FMul(normal_tonnage, overtime_150), price),
            FMul(FMul(overtime, overtime_200), price))
  ELSE FAdd(FMul(FMul(normal_tonnage, normal_hour), price),
            FMul(FMul(overtime, overtime_150), price))

\* variant: DARDANEL charged the CCCS movement fee as any other customer
Mut_dispatch_price(customer, Price, Price_right, fee) ==
  IF customer = "DARDANEL"
  THEN FAdd(FAdd(FSub(Price, Lit(DARDANEL_DISCOUNT)), Price_right), fee)
  ELSE FAdd(FAdd(Price, Price_right), fee)

\* the unit rate of dispatch_to_cargo
dispatch_price(customer, Price, Price_right, fee) ==
  IF customer = "DARDANEL"
  THEN FAdd(FSub(Price, Lit(DARDANEL_DISCOUNT)), Price_right)
  ELSE FAdd(FAdd(Price, Price_right), fee)

\* dispatch_to_cargo(): the total at the combined price of the two joins,
\* then the displayed components, reduced for DARDANEL
dispatch_to_cargo_frame(rows, sheet, n_threads) ==
  LET dispatched(x) == x.operation_type \in CARGO_DISPATCH_SERVICE
      key(x) ==
        [ day |-> x.day, date |-> x.date, movement_type |-> x.movement_type,
          customer |-> x.customer, vessel |-> x.vessel,
          operation_type |-> x.operation_type,
          total_tonnage |-> Abs(x.total_tonnage),
          overtime_tonnage |-> x.overtime_tonnage,
          by |-> "Tipping Truck", on |-> x.date ]
      loading(x) == [x EXCEPT !.by = "Loading to Cargo"]
      out(x, Price, Price_right, fee) ==
        [ day_name |-> x.day, date |-> x.date, movement_type |-> x.movement_type,
          customer |-> x.customer, vessel |-> x.vessel,
          operation_type |-> x.operation_type, total_tonnage |-> x.total_tonnage,
          overtime_tonnage |-> x.overtime_tonnage,
          truck_price |->
            IF x.customer = "DARDANEL" THEN FSub(Price, Lit(1)) ELSE Price,
          cccs_movement_fee |-> IF x.customer = "DARDANEL" THEN Lit(0) ELSE fee,
          stevedores_on_cargo_fee |->
            IF x.customer = "DARDANEL" THEN FSub(Price_right, Lit(3)) ELSE Price_right,
          total_price |->
            tonnage_total(x.day, FSub(Lit(x.total_tonnage), Lit(x.overtime_tonnage)),
                          Lit(x.overtime_tonnage),
                          dispatch_price(x.customer, Price, Price_right, fee)) ]
      kept          == SelectSeq(miscellaneous(rows), dispatched)
      left          == SortBy([i \in 1..Len(kept) |-> key(kept[i])])
      truck         == price_of(sheet, {"Tipping Truck"})
      cargo_loading == price_of(sheet, {"Loading to Cargo"})
      hits          == join_asof(left, truck, n_threads)
      hits_right    == join_asof([i \in 1..Len(left) |-> loading(left[i])],
                                 cargo_loading, n_threads)
  IN  IF cccs_movement_fee(sheet) = IndexError
      THEN [status |-> "IndexError", rows |-> <<>>]
      ELSE [status |-> "ok",
            rows |-> [i \in 1..Len(left) |->
                        out(left[i], AsofPrice(truck, hits[i]),
                            AsofPrice(cargo_loading, hits_right[i]),
                            cccs_movement_fee(sheet))]]

\* group_by(keys).agg(total_tonnage.sum(), overtime_tonnage.sum()): rows carry
\* their key in the field gkey; groups come in order of first appearance
RECURSIVE GroupSum(_, _)
GroupSum(rows, acc) ==
  IF rows = <<>> THEN acc
  ELSE LET x    == Head(rows)
           same == { j \in 1..Len(acc) : acc[j].gkey = x.gkey }
       IN  IF same = {}
           THEN GroupSum(Tail(rows), Append(acc, x))
           ELSE LET j == CHOOSE k \in same : TRUE
                IN  GroupSum(Tail(rows),
                      [acc EXCEPT
                         ![j].total_tonnage = @ + x.total_tonnage,
                         ![j].overtime_tonnage = @ + x.overtime_tonnage])

\* total_price of truck_to_cccs: the truck price and the CCCS fee, each tiered
truck_to_cccs_total(day, total, overtime, Price, fee) ==
  IF day \in SPECIAL_DAYS
  THEN FAdd(FAdd(FMul(FMul(FSub(total, overtime), Price), overtime_150),
                 FMul(FMul(overtime, Price), overtime_200)),
            FAdd(FMul(FMul(FSub(total, overtime), fee), overtime_150),
                 FMul(FMul(overtime, fee), overtime_200)))
  ELSE FAdd(FAdd(FMul(FSub(total, overtime), Price),
                 FMul(FMul(overtime, Price), overtime_150)),
            FAdd(FMul(FSub(total, overtime), fee),
                 FMul(FMul(overtime, fee), overtime_150)))

\* truck_to_cccs(); the groups of one date come in their order of appearance
truck_to_cccs_frame(rows, sheet, n_threads) ==
  LET shore(x) == x.customer \in client_shore_cost
                    /\ x.operation_type \in UNLOADING_SERVICE
      key(x) ==
        [ day |-> x.day, date |-> x.date, customer |-> x.customer,
          vessel |-> x.vessel, total_tonnage |-> x.total_tonnage,
          overtime_tonnage |-> x.overtime_tonnage,
          gkey |-> <<x.day, x.date, x.customer, x.vessel>>,
          by |-> "Tipping Truck", on |-> x.date ]
      out(x, Price, fee) ==
        [ day |-> x.day, date |-> x.date, customer |-> x.customer,
          vessel |-> x.vessel, total_tonnage |-> x.total_tonnage,
          overtime_tonnage |-> x.overtime_tonnage,
          Price |-> Price, CCCS_incoming_fee |-> fee,
          operation_type |-> "IPHS Truck to CCCS",
          total_price |->
            truck_to_cccs_total(x.day, Lit(x.total_tonnage),
                                Lit(x.overtime_tonnage), Price, fee) ]
      kept  == SelectSeq(miscellaneous(rows), shore)
      left  == SortBy(GroupSum([i \in 1..Len(kept) |-> key(kept[i])], <<>>))
      right == price_of(sheet, {"Tipping Truck"})
      hits  == join_asof(left, right, n_threads)
  IN  IF cccs_movement_fee(sheet) = IndexError
      THEN [status |-> "IndexError", rows |-> <<>>]
      ELSE [status |-> "ok",
            rows |-> [i \in 1..Len(left) |->
                        out(left[i], AsofPrice(right, hits[i]),
                            cccs_movement_fee(sheet))]]

\* data_source.all_dataframe._cross_stuffing(): rows with an empty day dropped
_cross_stuffing(rows) ==
  LET has_day(x) == x.day # ""
      kept == SelectSeq(rows, has_day)
  IN  [i \in 1..Len(kept) |-> [kept[i] EXCEPT !.date = ToDate(kept[i].date)]]

\* the frame of cross_stuffing or of cccs_stuffing, keyed for the join
stuffing_keyed(df) ==
  LET key(x) ==
        [ day |-> x.day, date |-> x.date, total_tonnage |-> x.total_tonnage,
          overtime_tonnage |-> x.overtime_tonnage, by |-> x.Service, on |-> x.date ]
  IN  [i \in 1..Len(df) |-> key(df[i])]

\* the rows of cross_stuffing or of cccs_stuffing after the join
stuffing_join(left, right, hits) ==
  LET out(x, Price) ==
        [ day |-> x.day, date |-> x.date, total_tonnage |-> x.total_tonnage,
          overtime_tonnage |-> x.overtime_tonnage, Service |-> x.by, Price |-> Price,
          total_price |->
            tonnage_total(x.day, FSub(Lit(x.total_tonnage), Lit(x.overtime_tonnage)),
                          Lit(x.overtime_tonnage), Price) ]
  IN  [i \in 1..Len(left) |-> out(left[i], AsofPrice(right, hits[i]))]

\* cross_stuffing(): join_asof on the sheet order, no sort
cross_stuffing_frame(rows, sheet, n_threads) ==
  LET left  == stuffing_keyed(_cross_stuffing(rows))
      right == price_of(sheet, CROSS_STUFFING_SERVICES)
  IN  IF cccs_movement_fee(sheet) = IndexError
      THEN [status |-> "IndexError", rows |-> <<>>]
      ELSE [status |-> "ok",
            rows |-> stuffing_join(left, right, join_asof(left, right, n_threads))]

\* data_source.all_dataframe.cccs_container_stuffing(); the sheet names its
\* day column Day
cccs_container_stuffing(rows) ==
  [i \in 1..Len(rows) |-> [rows[i] EXCEPT !.date = ToDate(rows[i].date)]]

\* cccs_stuffing(): join_asof on the sheet order, no sort
cccs_stuffing_frame(rows, sheet, n_threads) ==
  LET left  == stuffing_keyed(cccs_container_stuffing(rows))
      right == price_of(sheet, CCCS_STUFFING_SERVICES)
  IN  IF cccs_movement_fee(sheet) = IndexError
      THEN [status |-> "IndexError", rows |-> <<>>]
      ELSE [status |-> "ok",
            rows |-> stuffing_join(left, right, join_asof(left, right, n_threads))]

\* get_customer_by_type()["bycatch"]: the customers of type BYCATCH
by_catch_customer == { "AMIRANTE" }

\* data_source.all_dataframe.by_catch_transfer(): the day name derived from
\* the date and the public holidays around CURRENT_YEAR
by_catch_transfer(rows, year) ==
  LET row(r, date) ==
        [ day |-> add_day_name_col(date, year), date |-> date,
          movement_type |-> r.movement_type, customer |-> r.customer,
          vessel |-> r.vessel, operation_type |-> r.service,
          total_tonnage |-> r.total_tonnage,
          overtime_tonnage |-> r.overtime_tonnage ]
  IN  [i \in 1..Len(rows) |-> row(rows[i], ToDate(rows[i].date))]

\* the join key of the by-catch frames
transfer_key(x) == <<x.date, x.customer, x.vessel, x.movement_type>>

\* __by_catch(): unloading rows of by-catch customers, grouped and sorted
by_catch_rows(rows) ==
  LET caught(x) == x.operation_type \in UNLOADING_SERVICE
                     /\ x.customer \in by_catch_customer
      key(x) ==
        [ day |-> x.day, date |-> x.date, movement_type |-> x.movement_type,
          customer |-> x.customer, vessel |-> x.vessel,
          operation_type |-> "CCCS (By-Catch)", total_tonnage |-> x.total_tonnage,
          overtime_tonnage |-> x.overtime_tonnage,
          gkey |-> <<x.day, x.date, x.movement_type, x.customer, x.vessel>>,
          on |-> x.date ]
      grouped(x) ==
        [ day |-> x.day, date |-> x.date, movement_type |-> x.movement_type,
          customer |-> x.customer, vessel |-> x.vessel,
          operation_type |-> x.operation_type, total_tonnage |-> x.total_tonnage,
          overtime_tonnage |-> x.overtime_tonnage ]
      kept   == SelectSeq(miscellaneous(rows), caught)
      sorted == SortBy(GroupSum([i \in 1..Len(kept) |-> key(kept[i])], <<>>))
  IN  [i \in 1..Len(sorted) |-> grouped(sorted[i])]

\* the rows of df.join(other, how="left") that found a partner, netted
RECURSIVE NetJoin(_, _, _, _)
NetJoin(df, other, i, j) ==
  IF i > Len(df) THEN <<>>
  ELSE IF j > Len(other) THEN NetJoin(df, other, i + 1, 1)
  ELSE IF transfer_key(df[i]) = transfer_key(other[j])
       THEN << [df[i] EXCEPT
                  !.total_tonnage = @ - other[j].total_tonnage,
                  !.overtime_tonnage = @ - other[j].overtime_tonnage] >>
            \o NetJoin(df, other, i, j + 1)
       ELSE NetJoin(df, other, i, j + 1)

\* variant: __by_catch_with_transfer() keeping the rows that net to zero
Mut_by_catch_with_transfer(df, other) == NetJoin(df, other, 1, 1)

\* __by_catch_with_transfer() over df = __by_catch() and
\* other = by_catch_transfer()
by_catch_with_transfer(df, other) ==
  LET nonzero(x) == x.total_tonnage # 0
  IN  SelectSeq(NetJoin(df, other, 1, 1), nonzero)

\* a left join filtered on operation_type_right.is_null(): the rows of df
\* without a partner in other
AntiJoin(df, other) ==
  LET alone(x) == \A j \in 1..Len(other) : transfer_key(other[j]) # transfer_key(x)
  IN  SelectSeq(df, alone)

\* _by_catch_only() over df = __by_catch(), both = __by_catch_with_transfer()
\* and other = by_catch_transfer()
by_catch_only(df, both, other) == AntiJoin(AntiJoin(df, both), other)

\* by_catch(): the concatenation sorted twice by date, then priced
by_catch_frame(rows, transfer_rows, sheet, year, n_threads) ==
  LET key(x) ==
        [ day |-> x.day, date |-> x.date, customer |-> x.customer,
          vessel |-> x.vessel, operation_type |-> x.operation_type,
          total_tonnage |-> x.total_tonnage,
          overtime_tonnage |-> x.overtime_tonnage,
          by |-> x.operation_type, on |-> x.date ]
      out(x, Price) ==
        [ day |-> x.day, date |-> x.date, customer |-> x.customer,
          vessel |-> x.vessel, operation_type |-> x.operation_type,
          total_tonnage |-> x.total_tonnage,
          overtime_tonnage |-> x.overtime_tonnage, Price |-> Price,
          total_price |->
            tonnage_total(x.day, FSub(Lit(x.total_tonnage), Lit(x.overtime_tonnage)),
                          Lit(x.overtime_tonnage), Price) ]
      df    == by_catch_rows(rows)
      other == by_catch_transfer(transfer_rows, year)
      both  == by_catch_with_transfer(df, other)
      all   == by_catch_only(df, both, other) \o other \o both
      left  == SortBy(SortBy([i \in 1..Len(all) |-> key(all[i])]))
      right == price_of(sheet, BY_CATCH_SERVICES)
      hits  == join_asof(left, right, n_threads)
  IN  IF cccs_movement_fee(sheet) = IndexError
      THEN [status |-> "IndexError", rows |-> <<>>]
      ELSE [status |-> "ok",
            rows |-> [i \in 1..Len(left) |-> out(left[i], AsofPrice(right, hits[i]))]]

(***************************************************************************)
(* The net list (dataframe/netlist.py) and the well-to-well transfer       *)
(* (dataframe/operations.py).                                              *)
(***************************************************************************)
UNLOADING_PRICE_SERVICES ==
  { "Transhipment - Brine", "Transhipment - Dry", "Unload to CCCS - Brine",
    "Unload to CCCS - Dry", "Unload to Quay - Brine", "Unload to Quay - Dry",
    "Container Stuffing - Brine", "Container Stuffing - Dry", "Full OSS - Brine",
    "Full OSS - Dry", "Basic OSS - Brine", "Basic OSS - Dry" }

overtime_150_text == "overtime 150%"

overtime_200_text == "overtime 200%"

normal_hour_text == "normal hours"

FREE == Lit(0)

\* get_customer_by_type()["cargo"] and iot_soc_enum(): lists read from sheets
cargo == { "SEA VENUS" }

iot_soc == { "IOTU1" }

\* netlist.price_list(): get_price() keeps every service of the sheet; the
\* frames add a parsed date column
unloading_price(sheet) ==
  LET keep(r) == r.Service \in UNLOADING_PRICE_SERVICES
  IN  PriceKeyed(SelectSeq(sheet, keep))

stuffing_price(sheet) ==
  LET keep(r) == r.Service = "Stuffing"
  IN  PriceKeyed(SelectSeq(sheet, keep))

\* the service of a net list row, from its destination; customer and
\* stuffing are the columns the left join with stuffing_type() brought
net_list_service(x) ==
  IF x.destination \in {"IOT", "DARDANEL", "Unload to Quay"}
       \/ (x.destination \in iot_soc /\ x.customer = "IOT")
  THEN "Unload to Quay"
  ELSE IF x.destination \in cargo THEN "Transhipment"
  ELSE IF x.destination = "CCCS" THEN "Unload to CCCS"
  ELSE x.stuffing

\* the Price of a net list row after the overtime percentage
net_list_price(overtime, Price) ==
  IF overtime = overtime_200_text THEN FMul(Price, overtime_200)
  ELSE IF overtime = overtime_150_text THEN FMul(Price, overtime_150)
  ELSE Price

\* net_list(): the sheet rows not bound for CCCS, then the adjusted records
net_list_frame(rows, cccs_adjusted, sheet, n_threads) ==
  LET direct(x) == x.destination # "CCCS"
      both  == SelectSeq(rows, direct) \o cccs_adjusted
      keyed == [i \in 1..Len(both) |->
                  [ date |-> ToDate(both[i].date), overtime |-> both[i].overtime,
                    destination |-> both[i].destination,
                    storage_type |-> both[i].storage_type,
                    total_tonnage |-> both[i].total_tonnage,
                    service |-> net_list_service(both[i]),
                    by |-> net_list_service(both[i]) \o " - " \o both[i].storage_type,
                    on |-> ToDate(both[i].date) ]]
      left  == SortBy(keyed)
      right == unloading_price(sheet)
      hits  == join_asof(left, right, n_threads)
  IN  [status |-> "ok",
       rows |-> [i \in 1..Len(left) |->
          LET x     == left[i]
              Price == net_list_price(x.overtime, AsofPrice(right, hits[i]))
          IN  [ date |-> x.date, destination |-> x.destination,
                overtime |-> x.overtime, storage_type |-> x.storage_type,
                total_tonnage |-> x.total_tonnage, service |-> x.service,
                Price |-> Price,
                invoice_value |-> FMul(Price, Lit(x.total_tonnage)) ]]]

\* whether a key column is in ascending order
IsSorted(rows) == \A i \in 1..(Len(rows) - 1) : rows[i].on <= rows[i + 1].on

\* the total_price of an IOT stuffing row
iot_stuffing_total(overtime, total_tonnage, Price) ==
  IF overtime = normal_hour_text THEN FMul(FMul(total_tonnage, Price), normal_hour)
  ELSE IF overtime = overtime_150_text THEN FMul(FMul(total_tonnage, Price), overtime_150)
  ELSE IF overtime = overtime_200_text THEN FMul(FMul(total_tonnage, Price), overtime_200)
  ELSE FREE

\* iot_stuffing(): join_asof with by=None on the sheet order of both frames.
\* Without by-groups the library may verify that both keys are sorted and
\* refuse; checks_sorted says whether the installed version does.  customer
\* is the column the left join with iot_coa() brought.
iot_stuffing_frame(rows, sheet, year, checks_sorted) ==
  LET soc(x) == x.destination \in iot_soc
      kept   == SelectSeq(rows, soc)
      left   == [i \in 1..Len(kept) |->
                   [ date |-> ToDate(kept[i].date), overtime |-> kept[i].overtime,
                     container_number |-> kept[i].destination,
                     storage |-> kept[i].storage_type,
                     total_tonnage |-> kept[i].total_tonnage,
                     customer |-> kept[i].customer,
                     day_name |-> add_day_name_col(ToDate(kept[i].date), year),
                     by |-> "", on |-> ToDate(kept[i].date) ]]
      price  == stuffing_price(sheet)
      right  == [j \in 1..Len(price) |-> [price[j] EXCEPT !.by = ""]]
      hits   == join_asof(left, right, 1)
      priced == [i \in 1..Len(left) |->
                   LET x     == left[i]
                       Price == AsofPrice(right, hits[i])
                   IN  [ date |-> x.date, day_name |-> x.day_name,
                         container_number |-> x.container_number,
                         overtime |-> x.overtime, storage |-> x.storage,
                         total_tonnage |-> x.total_tonnage,
                         customer |-> x.customer, Price |-> Price,
                         total_price |->
                           iot_stuffing_total(x.overtime, Lit(x.total_tonnage), Price) ]]
      iot(x) == x.customer = "IOT"
  IN  IF checks_sorted /\ ~(IsSorted(left) /\ IsSorted(right))
      THEN [status |-> "InvalidOperationError", rows |-> <<>>]
      ELSE [status |-> "ok", rows |-> SelectSeq(priced, iot)]

\* operations.price_list(): date is the Date column as it is, a string
well_to_well_price(sheet) ==
  LET price == get_price(sheet, {"Well to Well Transfer"})
  IN  [j \in 1..Len(price) |->
         [by |-> price[j].Service, on |-> StrKey(price[j].Date),
          Price |-> price[j].Price]]

\* total_price of hatch_to_hatch: no overtime tier
hatch_to_hatch_total(day_name, tonnage, Price) ==
  IF day_name \in SPECIAL_DAYS
  THEN FMul(FMul(overtime_150, Price), tonnage)
  ELSE FMul(FMul(normal_hour, Price), tonnage)

\* hatch_to_hatch(): both frames sorted and joined on the date strings
hatch_to_hatch_frame(rows, sheet, n_threads) ==
  LET keyed == [i \in 1..Len(rows) |->
                  [ day_name |-> rows[i].day, date |-> rows[i].date,
                    tonnage |-> rows[i].total_tonnage,
                    by |-> "Well to Well Transfer", on |-> StrKey(rows[i].date) ]]
      left  == SortBy(keyed)
      right == SortBy(well_to_well_price(sheet))
      hits  == join_asof(left, right, n_threads)
  IN  [status |-> "ok",
       rows |-> [i \in 1..Len(left) |->
          LET x     == left[i]
              Price == AsofPrice(right, hits[i])
          IN  [ day_name |-> x.day_name, date |-> x.date,
                tonnage |-> x.tonnage, Price |-> Price,
                total_price |-> hatch_to_hatch_total(x.day_name, Lit(x.tonnage), Price) ]]]

(***************************************************************************)
(* bin_tipping (dataframe/shore_handling.py)                               *)
(***************************************************************************)
\* the two-tier total of one row at a scalar price, as bin_tipping writes it
bin_tipping_total(day_name, tonnage, overtime, price) ==
  IF day_name \in SPECIAL_DAYS
  THEN FAdd(FMul(FMul(price, overtime_150), FSub(tonnage, overtime)),
            FMul(FMul(price, overtime_200), overtime))
  ELSE FAdd(FMul(FMul(price, normal_hour), FSub(tonnage, overtime)),
            FMul(FMul(price, overtime_150), overtime))

bin_tipping_row(x, price, year) ==
  LET date == ToDate(x.Date)
      day  == add_day_name_col(date, year)
  IN  [ day_name |-> day, Date |-> date, Service |-> "IPHS Bin Tipping",
        Tonnage |-> x.Tonnage, Overtime |-> x.Overtime, price |-> price,
        total_price |-> bin_tipping_total(day, Lit(x.Tonnage), Lit(x.Overtime), price) ]

\* bin_tipping(): rows with Tonnage Tipped > 0, priced at the scalar price
bin_tipping_frame(rows, sheet, year) ==
  LET tipped(x) == x.Tonnage > 0
      kept == SelectSeq(rows, tipped)
  IN  IF bin_tipping_price(sheet) = IndexError
      THEN [status |-> "IndexError", rows |-> <<>>]
      ELSE [status |-> "ok",
            rows |-> [i \in 1..Len(kept) |->
                        bin_tipping_row(kept[i], bin_tipping_price(sheet), year)]]

(***************************************************************************)
(* The scow transfers of dataframe/bin_dispatch.py.  A row of the          *)
(* ScowTransfer sheet has date, customer, movement_type, time_out,         *)
(* time_in, status and num_of_scows.                                       *)
(***************************************************************************)
\* str.replace("", "0"): the empty pattern matches at the start of the string
str_replace_empty(s) == "0" \o s

\* cast(pl.Float32) of the strings the sheet holds
cast_Float32(s) ==
  CASE s = "0" -> 0 [] s = "05" -> 5 [] s = "020" -> 20

\* transport.scow_transfer(): the dates and times parsed
scow_transfer(rows) ==
  LET Row(x) ==
        [ date |-> ToDate(x.date), customer |-> x.customer,
          movement_type |-> x.movement_type, time_out |-> ToTime(x.time_out),
          time_in |-> ToTime(x.time_in), status |-> x.status,
          num_of_scows |-> x.num_of_scows ]
  IN  [i \in 1..Len(rows) |-> Row(rows[i])]

\* bin_dispatch(): the bin dispatches of the CCCSReport sheet
bin_dispatch(rows) ==
  LET kept == SelectSeq(rows, LAMBDA x : x.operation_type \in BIN_DISPATCH_SERVICE)
      Row(x) ==
        [ day_name |-> x.day, date |-> ToDate(x.date),
          movement_type |-> x.movement_type, customer |-> x.customer,
          operation_type |-> x.operation_type,
          total_tonnage |-> Abs(x.total_tonnage),
          overtime_tonnage |-> cast_Float32(str_replace_empty(x.overtime_tonnage)),
          normal_tonnage |-> Abs(x.total_tonnage)
                               - cast_Float32(str_replace_empty(x.overtime_tonnage)) ]
  IN  [i \in 1..Len(kept) |-> Row(kept[i])]

\* variant: the special-day cutoff itself counted as after the cutoff
Mut_scow_overtime(day_name, time_out) ==
  IF day_name \in SPECIAL_DAYS /\ time_out >= UPPER_BOUND_SPECIAL_DAY
  THEN overtime_200_text
  ELSE IF day_name \in SPECIAL_DAYS
          \/ (day_name \notin SPECIAL_DAYS /\ time_out > UPPER_BOUND)
  THEN overtime_150_text
  ELSE normal_hour_text

\* the overtime column of full_scows() and empty_scows()
scow_overtime(day_name, time_out) ==
  IF day_name \in SPECIAL_DAYS /\ time_out > UPPER_BOUND_SPECIAL_DAY
  THEN overtime_200_text
  ELSE IF day_name \in SPECIAL_DAYS
          \/ (day_name \notin SPECIAL_DAYS /\ time_out > UPPER_BOUND)
  THEN overtime_150_text
  ELSE normal_hour_text

\* the first two with_columns: movement_type, day_name and overtime
scow_labelled(rows, status, year) ==
  LET kept == SelectSeq(scow_transfer(rows), LAMBDA x : x.status = status)
      Row(x) ==
        LET day == add_day_name_col(x.date, year)
            mv  == IF x.movement_type = "Delivery" THEN "OUT" ELSE "IN"
            ot  == scow_overtime(day, x.time_out)
        IN  [ day_name |-> day, date |-> x.date, customer |-> x.customer,
              movement_type |-> mv, overtime |-> ot,
              start_time |-> x.time_out, end_time |-> x.time_in,
              num_of_scows |-> x.num_of_scows,
              gkey |-> <<day, x.date, x.customer, mv, ot>>,
              by |-> CCCS_MOVEMENT, on |-> x.date ]
  IN  [i \in 1..Len(kept) |-> Row(kept[i])]

\* group_by([day_name, date, customer, movement_type, overtime]).agg(
\* time_out.min(), time_in.max(), num_of_scows.sum()); groups come in order
\* of first appearance
RECURSIVE scow_group_by(_, _)
scow_group_by(rows, acc) ==
  IF rows = <<>> THEN acc
  ELSE LET x    == Head(rows)
           same == { j \in 1..Len(acc) : acc[j].gkey = x.gkey }
       IN  IF same = {}
           THEN scow_group_by(Tail(rows), Append(acc, x))
           ELSE LET j == CHOOSE k \in same : TRUE
                IN  scow_group_by(Tail(rows),
                      [acc EXCEPT
                         ![j].start_time =
                            IF x.start_time < @ THEN x.start_time ELSE @,
                         ![j].end_time = IF x.end_time > @ THEN x.end_time ELSE @,
                         ![j].num_of_scows = @ + x.num_of_scows])

\* total_price of a group: the quantity at the rate of its label
scow_total_price(overtime, quantity, Price) ==
  IF overtime = normal_hour_text THEN FMul(FMul(quantity, normal_hour), Price)
  ELSE IF overtime = overtime_150_text THEN FMul(FMul(quantity, overtime_150), Price)
  ELSE FMul(FMul(quantity, overtime_200), Price)

\* join(bin_df, on=[date, customer, movement_type], how="left") and the
\* tonnage column: a left row once per matching bin dispatch, or once with
\* a null tonnage
RECURSIVE scow_join(_, _)
scow_join(left, bin_df) ==
  IF left = <<>> THEN <<>>
  ELSE LET x == Head(left)
           matches == SelectSeq(bin_df,
                        LAMBDA b : /\ b.date = x.date
                                   /\ b.customer = x.customer
                                   /\ b.movement_type = x.movement_type)
           Tonnage(b) ==
             IF x.overtime = normal_hour_text
                \/ (x.day_name \in SPECIAL_DAYS /\ x.overtime = overtime_150_text)
             THEN Lit(b.normal_tonnage) ELSE Lit(b.overtime_tonnage)
           Joined(t) ==
             [ day_name |-> x.day_name, date |-> x.date, customer |-> x.customer,
               movement_type |-> x.movement_type, overtime |-> x.overtime,
               start_time |-> x.start_time, end_time |-> x.end_time,
               num_of_scows |-> x.num_of_scows, tonnage |-> t,
               by |-> x.by, on |-> x.on ]
       IN  (IF matches = <<>> THEN << Joined(Null) >>
            ELSE [k \in 1..Len(matches) |-> Joined(Tonnage(matches[k]))])
           \o scow_join(Tail(left), bin_df)

\* bin_dispatch.price_list(): get_price(["CCCS Movement in/out"])
scow_transfer_price(sheet) == PriceKeyed(get_price(sheet, {CCCS_MOVEMENT}))

\* full_scows()
full_scows_frame(rows, cccs, sheet, year, n_threads) ==
  LET grouped == scow_group_by(scow_labelled(rows, "Full", year), <<>>)
      left    == SortBy(scow_join(grouped, bin_dispatch(cccs)))
      right   == scow_transfer_price(sheet)
      hits    == join_asof(left, right, n_threads)
      Row(x, Price) ==
        [ day_name |-> x.day_name, date |-> x.date, customer |-> x.customer,
          movement_type |->
            IF x.movement_type = "OUT" THEN "IPHS Delivery of Full Scows to IOT"
            ELSE IF x.movement_type = "IN"
            THEN "IPHS Collection of Full Scows from IOT" ELSE "Err",
          overtime |-> x.overtime, start_time |-> x.start_time,
          end_time |-> x.end_time, num_of_scows |-> x.num_of_scows,
          tonnage |-> x.tonnage, Price |-> Price,
          total_price |-> scow_total_price(x.overtime, x.tonnage, Price) ]
  IN  [status |-> "ok",
       rows |-> [i \in 1..Len(left) |-> Row(left[i], AsofPrice(right, hits[i]))]]

\* empty_scows()
empty_scows_frame(rows, sheet, year, n_threads) ==
  LET left  == SortBy(scow_group_by(scow_labelled(rows, "Empty", year), <<>>))
      right == scow_transfer_price(sheet)
      hits  == join_asof(left, right, n_threads)
      Row(x, Price) ==
        [ day_name |-> x.day_name, date |-> x.date, customer |-> x.customer,
          movement_type |->
            IF x.movement_type = "OUT" THEN "IPHS Delivery of Empty Scows to IOT"
            ELSE IF x.movement_type = "IN"
            THEN "IPHS Collection of Empty Scows from IOT" ELSE "Err",
          overtime |-> x.overtime, start_time |-> x.start_time,
          end_time |-> x.end_time, num_of_scows |-> x.num_of_scows,
          Price |-> Price,
          total_price |-> scow_total_price(x.overtime, Lit(x.num_of_scows), Price) ]
  IN  [status |-> "ok",
       rows |-> [i \in 1..Len(left) |-> Row(left[i], AsofPrice(right, hits[i]))]]

(***************************************************************************)
(* The pre-trip inspections of dataframe/emr.py.  A row of the PTI sheet   *)
(* has datetime_start, container_number, set_point, datetime_end, status,  *)
(* invoice_to and plugged_on; a blank cell is read as a null.              *)
(***************************************************************************)
EMR_SERVICES ==
  { "PTI Magnum", "Plugin", "PTI S Freezer", "Shifting", "PTI Standard",
    "Container Cleaning" }

\* price_list()[...]: element [0] of the Price column of one service
emr_price(sheet, service) ==
  LET col == SelectSeq(get_price(sheet, EMR_SERVICES), LAMBDA r : r.Service = service)
  IN  IF col = <<>> THEN IndexError ELSE Lit(col[1].Price)

\* str.to_datetime(format="%d/%m/%Y %H:%M:%S"), in minutes
str_to_datetime(s) ==
  IF s = <<>> THEN [null |-> TRUE, t |-> 0]
  ELSE [null |-> FALSE, t |-> Combine(ToDate(<<s[1], s[2], s[3]>>), s[4] * 60 + s[5])]

EIGHT_HOURS == 8

\* the rows of _pti(): hours, plugin_price, electricity_price and cum_count,
\* the number of rows of the container up to and including this one
_pti(rows, sheet) ==
  LET Row(i) ==
        LET x       == rows[i]
            start   == str_to_datetime(x.datetime_start)
            end     == str_to_datetime(x.datetime_end)
            known   == ~start.null /\ ~end.null
            hours   == IF known THEN F(end.t - start.t, 60) ELSE Null
            above_8_hours ==
              IF known /\ end.t - start.t > EIGHT_HOURS * 60 THEN Lit(2) ELSE Lit(1)
            rate    ==
              IF x.invoice_to = "IOT"
              THEN (IF known
                    THEN FAdd(F((end.t - start.t) \div 60, 24), Lit(1)) ELSE Null)
              ELSE IF x.set_point = "-60" THEN emr_price(sheet, "PTI S Freezer")
              ELSE IF x.set_point = "-35" THEN emr_price(sheet, "PTI Magnum")
              ELSE IF x.set_point = "-25" THEN emr_price(sheet, "PTI Standard")
              ELSE FREE
        IN  [ datetime_start |-> start, container_number |-> x.container_number,
              set_point |-> x.set_point, invoice_to |-> x.invoice_to,
              datetime_end |-> end, hours |-> hours, status |-> x.status,
              plugin_price |-> emr_price(sheet, "Plugin"),
              electricity_price |-> FMul(rate, above_8_hours),
              generator |-> x.plugged_on,
              cum_count |->
                Cardinality({ j \in 1..i :
                                rows[j].container_number = x.container_number }) ]
  IN  [i \in 1..Len(rows) |-> Row(i)]

\* a & b on Boolean columns that hold true, false or null
KleeneAnd(a, b) ==
  IF a = "false" \/ b = "false" THEN "false"
  ELSE IF a = "true" /\ b = "true" THEN "true"
  ELSE "null"

\* variant: the fee waived whenever the comparison has a null
Mut_fill_null(a, value) == IF a = "null" THEN "false" ELSE a

fill_null(a, value) == IF a = "null" THEN value ELSE a

\* the no_shifting column of pti(): row x against the row of its left join,
\* hit = 0 when the container has no row numbered cum_count - 1
no_shifting(x, df_2, hit) ==
  LET late ==
        IF hit = 0 \/ x.datetime_start.null THEN "null"
        ELSE IF df_2[hit].datetime_end.null THEN "null"
        ELSE IF x.datetime_start.t - df_2[hit].datetime_end.t > 24 * 60
        THEN "true" ELSE "false"
      same ==
        IF hit = 0 \/ x.generator = "" THEN "null"
        ELSE IF df_2[hit].generator = "" THEN "null"
        ELSE IF df_2[hit].generator = x.generator THEN "true" ELSE "false"
  IN  fill_null(KleeneAnd(late, same), "true")

\* pti(): _pti() left-joined with itself on (container_number, previous)
pti_frame(rows, sheet) ==
  LET df   == _pti(rows, sheet)
      df_2 == _pti(rows, sheet)
      shifting_ == emr_price(sheet, "Shifting")
      Hit(x) ==
        LET found == { j \in 1..Len(df_2) :
                         /\ df_2[j].container_number = x.container_number
                         /\ df_2[j].cum_count = x.cum_count - 1 }
        IN  IF found = {} THEN 0 ELSE CHOOSE j \in found : TRUE
      Row(x) ==
        LET ns == no_shifting(x, df_2, Hit(x))
            shifting_price == IF ns = "true" THEN shifting_ ELSE FREE
        IN  [ datetime_start |-> x.datetime_start,
              container_number |-> x.container_number,
              set_point |-> x.set_point, invoice_to |-> x.invoice_to,
              datetime_end |-> x.datetime_end, hours |-> x.hours,
              status |-> x.status, plugin_price |-> x.plugin_price,
              electricity_price |-> x.electricity_price, no_shifting |-> ns,
              generator |-> x.generator, shifting_price |-> shifting_price,
              total_price |-> FAdd(FAdd(x.plugin_price, x.electricity_price),
                                   shifting_price) ]
  IN  IF \E service \in EMR_SERVICES : emr_price(sheet, service) = IndexError
      THEN [status |-> "IndexError", rows |-> <<>>]
      ELSE [status |-> "ok", rows |-> [i \in 1..Len(df) |-> Row(df[i])]]

(***************************************************************************)
(* State: the source sheets as fetched, the calendar year of the run, and  *)
(* the frame the last pipeline returned.                                   *)
(***************************************************************************)
VARIABLES
  price_sheet,   \* the Price sheet, rows of Service, Price, Date (StartingDate)
  sheet_name,    \* the activity sheet load_gsheet_data returned
  activity,      \* its rows, in sheet order
  other_df,      \* the second frame of the pipeline (IPHSBycatchTransfer)
  CURRENT_YEAR,  \* the year of the day the process started
  pipeline,      \* the pipeline that ran last
  result,        \* the frame it returned, or the error it raised
  raising,       \* the pipeline coroutines that raise when they are awaited
  collections,   \* what each load_*_dataframes() returned, per category key
  final_results, \* what all_dataframes() returned
  fan_out,       \* the coroutines of one save of all categories, by stage
  _dataframes,   \* LazyDataFrameCollections._dataframes
  request,       \* the last call on a LazyDataFrameCollections and its outcome
  data_cache,    \* make_dataset.data_cache: cache_key -> frame
  calls,         \* the calls of load_gsheet_data, by caller
  network        \* the requests sent to the sheets so far, by cache_key

fetcher == <<data_cache, calls, network>>

loader == <<raising, collections, final_results, fan_out, _dataframes, request, fetcher>>

vars == <<price_sheet, sheet_name, activity, other_df, CURRENT_YEAR, pipeline, result,
          loader>>

NoResult == [status |-> "none", rows |-> <<>>]

\* sequences over S of length lo..hi
SeqsOf(S, lo, hi) == UNION { [1..k -> S] : k \in lo..hi }

(***************************************************************************)
(* The loaders of all_dataframes/all_dataframes.py.  A coroutine ends with *)
(* an outcome: the frame it returned, or the exception it raised.          *)
(***************************************************************************)
\* the tasks dictionary of each DataFrameCollections.load_*_dataframes()
tasks ==
  [ emr_dataframes |-> {"shifting", "washing", "pti"},
    bin_dispatch_dataframes |-> {"full_scows_transfer", "empty_scows_transfer"},
    miscellaneous_dataframes |->
      {"static_loader", "dispatch_to_cargo", "truck_to_cccs", "cross_stuffing",
       "cccs_stuffing", "bycatch"},
    netlist_dataframes |-> {"net_list", "iot_container_stuffing", "oss_stuffing"},
    operations_dataframes |-> {"ops", "hatch_to_hatch"},
    shore_handling_dataframes |-> {"salt", "forklift_salt", "bin_tipping"},
    stuffing_dataframes |-> {"pallet_liner", "container_plugin"},
    transport_dataframes |-> {"shore_crane", "transfer", "scow_transfer", "forklift"} ]

\* the keys of collection_tasks in all_dataframes()
collection_tasks == DOMAIN tasks

\* every pipeline coroutine, as <<category key, name>>
Pipelines == UNION { { <<c, n>> : n \in tasks[c] } : c \in collection_tasks }

Pending == [status |-> "pending", value |-> <<>>]

Returned(v) == [status |-> "ok", value |-> v]

Raised(e) == [status |-> "raised", value |-> e]

\* variant: asyncio.gather without return_exceptions, the first exception propagates
Mut_gather(aws, outcome) ==
  IF \E a \in aws : outcome[a].status = "raised"
    THEN Raised("Exception")
    ELSE Returned([a \in aws |-> outcome[a]])

\* asyncio.gather(*aws, return_exceptions=True): an exception is a result like another
gather(aws, outcome) ==
  Returned([a \in aws |-> outcome[a]])

\* a loader: gather its tasks, keep the names whose result is no Exception
load_dataframes(c, raised) ==
  LET outcome == [n \in tasks[c] |->
                    IF <<c, n>> \in raised THEN Raised("Exception")
                                           ELSE Returned(<<c, n>>)]
      results == gather(tasks[c], outcome)
  IN  IF results.status = "raised"
        THEN results
        ELSE Returned([name \in { n \in tasks[c] : results.value[n].status # "raised" } |->
                         results.value[name].value])

\* all_dataframes(): gather the loaders, an empty dict for a loader that failed
all_dataframes_results(loaded) ==
  LET results == gather(collection_tasks, loaded)
  IN  IF results.status = "raised"
        THEN results
        ELSE Returned([name \in collection_tasks |->
                         IF results.value[name].status = "raised"
                           THEN <<>>
                           ELSE results.value[name].value])

\* asyncio.Semaphore(10) of save_df_to_csv_async
SemaphoreLimit == 10

NoFanOut ==
  [ stage |-> "none", created |-> 0, fetching |-> 0, frames |-> 0, waiting |-> 0,
    saving |-> 0, semaphore |-> 0, saved |-> 0 ]

NoRequest == [method |-> "none", collection |-> "none", name |-> "none", outcome |-> Pending]

NoFetcher ==
  /\ data_cache = <<>>
  /\ calls = <<>>
  /\ network = <<>>

NoLoader ==
  /\ raising = {}
  /\ collections = <<>>
  /\ final_results = Pending
  /\ fan_out = NoFanOut
  /\ _dataframes = <<>>
  /\ request = NoRequest
  /\ NoFetcher

\* ------------------------------------------------------------------ bounds
MaxSaltPrices == 1

MaxPrices == 2

MaxRows == 2

MaxTransfers == 1

MaxThreads == 2

MaxScows == 2

MaxPti == 3

Years == {2024}

\* 15/01/2024 is a Monday, 04/02/2024 a Sunday, 01/05/2024 a public holiday
PriceDates == { <<15, 1, 2024>>, <<4, 2, 2024>> }

ActivityDates == { <<15, 1, 2024>>, <<4, 2, 2024>>, <<1, 5, 2024>> }

\* 02:00 08:00 09:00 16:00 17:00 19:00 22:00
SaltTimes == { <<2, 0>>, <<8, 0>>, <<9, 0>>, <<16, 0>>, <<17, 0>>, <<19, 0>>, <<22, 0>> }

SaltDays == {"Tue", "Sun", "PH"}

SaltTonnages == {10, 100}

Prices == {2, 3}

PriceRows(services) ==
  [Service : services, Price : Prices, Date : PriceDates]

SaltRows ==
  [ day_name : SaltDays, date : {<<4, 2, 2024>>}, start_time : SaltTimes,
    end_time : SaltTimes, operation_type : {"Loading (Quay to Ship)"},
    tonnage : SaltTonnages ]

\* --------------------------------------------------------------- pipelines
salt ==
  /\ sheet_name = "SaltOperation"
  /\ pipeline' = "salt"
  /\ result' = salt_frame(activity, price_sheet)
  /\ UNCHANGED <<price_sheet, sheet_name, activity, other_df, CURRENT_YEAR, loader>>

bin_tipping ==
  /\ sheet_name = "BinTipping"
  /\ pipeline' = "bin_tipping"
  /\ result' = bin_tipping_frame(activity, price_sheet, CURRENT_YEAR)
  /\ UNCHANGED <<price_sheet, sheet_name, activity, other_df, CURRENT_YEAR, loader>>

static_loader ==
  /\ sheet_name = "CCCSReport"
  /\ pipeline' = "static_loader"
  /\ \E n_threads \in 1..MaxThreads :
       result' = static_loader_frame(activity, price_sheet, n_threads)
  /\ UNCHANGED <<price_sheet, sheet_name, activity, other_df, CURRENT_YEAR, loader>>

dispatch_to_cargo ==
  /\ sheet_name = "CCCSReport"
  /\ pipeline' = "dispatch_to_cargo"
  /\ \E n_threads \in 1..MaxThreads :
       result' = dispatch_to_cargo_frame(activity, price_sheet, n_threads)
  /\ UNCHANGED <<price_sheet, sheet_name, activity, other_df, CURRENT_YEAR, loader>>

truck_to_cccs ==
  /\ sheet_name = "CCCSReport"
  /\ pipeline' = "truck_to_cccs"
  /\ \E n_threads \in 1..MaxThreads :
       result' = truck_to_cccs_frame(activity, price_sheet, n_threads)
  /\ UNCHANGED <<price_sheet, sheet_name, activity, other_df, CURRENT_YEAR, loader>>

by_catch ==
  /\ sheet_name = "CCCSReport"
  /\ pipeline' = "by_catch"
  /\ \E n_threads \in 1..MaxThreads :
       result' = by_catch_frame(activity, other_df, price_sheet, CURRENT_YEAR, n_threads)
  /\ UNCHANGED <<price_sheet, sheet_name, activity, other_df, CURRENT_YEAR, loader>>

cross_stuffing ==
  /\ sheet_name = "CrossStuffing"
  /\ pipeline' = "cross_stuffing"
  /\ \E n_threads \in 1..MaxThreads :
       result' = cross_stuffing_frame(activity, price_sheet, n_threads)
  /\ UNCHANGED <<price_sheet, sheet_name, activity, other_df, CURRENT_YEAR, loader>>

cccs_stuffing ==
  /\ sheet_name = "CCCSContainerStuffing"
  /\ pipeline' = "cccs_stuffing"
  /\ \E n_threads \in 1..MaxThreads :
       result' = cccs_stuffing_frame(activity, price_sheet, n_threads)
  /\ UNCHANGED <<price_sheet, sheet_name, activity, other_df, CURRENT_YEAR, loader>>

net_list ==
  /\ sheet_name = "UnloadingSummary"
  /\ pipeline' = "net_list"
  /\ \E n_threads \in 1..MaxThreads :
       result' = net_list_frame(activity, other_df, price_sheet, n_threads)
  /\ UNCHANGED <<price_sheet, sheet_name, activity, other_df, CURRENT_YEAR, loader>>

iot_stuffing ==
  /\ sheet_name = "UnloadingSummary"
  /\ pipeline' = "iot_stuffing"
  /\ \E checks_sorted \in BOOLEAN :
       result' = iot_stuffing_frame(activity, price_sheet, CURRENT_YEAR, checks_sorted)
  /\ UNCHANGED <<price_sheet, sheet_name, activity, other_df, CURRENT_YEAR, loader>>

hatch_to_hatch ==
  /\ sheet_name = "WelltoWell"
  /\ pipeline' = "hatch_to_hatch"
  /\ \E n_threads \in 1..MaxThreads :
       result' = hatch_to_hatch_frame(activity, price_sheet, n_threads)
  /\ UNCHANGED <<price_sheet, sheet_name, activity, other_df, CURRENT_YEAR, loader>>

\* ------------------------------------- the salt allocator on one salt row
InitSalt ==
  /\ price_sheet \in SeqsOf(PriceRows(SALT_SERVICES), 1, MaxSaltPrices)
  /\ sheet_name = "SaltOperation"
  /\ activity \in [1..1 -> SaltRows]
  /\ other_df = <<>>
  /\ CURRENT_YEAR \in Years
  /\ pipeline = "none"
  /\ result = NoResult
  /\ NoLoader

NextSalt == salt

SpecSalt == InitSalt /\ [][NextSalt]_vars

\* -------------------------------------------- the forklift hours of salt
ForkliftRows ==
  [ day_name : SaltDays, date : {<<4, 2, 2024>>}, start_time : SaltTimes,
    end_time : SaltTimes,
    operation_type : {"Loading (Quay to Ship)", "Loading @ Zone 14"},
    tonnage : {10} ]

forklift_salt ==
  /\ sheet_name = "SaltOperation"
  /\ pipeline' = "forklift_salt"
  /\ result' = forklift_salt_frame(activity, price_sheet)
  /\ UNCHANGED <<price_sheet, sheet_name, activity, other_df, CURRENT_YEAR, loader>>

InitForklift ==
  /\ price_sheet \in SeqsOf(PriceRows(SALT_SERVICES), 1, MaxSaltPrices)
  /\ sheet_name = "SaltOperation"
  /\ activity \in [1..1 -> ForkliftRows]
  /\ other_df = <<>>
  /\ CURRENT_YEAR \in Years
  /\ pipeline = "none"
  /\ result = NoResult
  /\ NoLoader

NextForklift == forklift_salt

SpecForklift == InitForklift /\ [][NextForklift]_vars

\* ------------------------------------------------- the scow transfers
\* 16:00 16:30 17:00 18:00
ScowTimes == { <<16, 0>>, <<16, 30>>, <<17, 0>>, <<18, 0>> }

\* 15/01/2024 is a Monday, 01/05/2024 a public holiday
ScowDates == { <<15, 1, 2024>>, <<1, 5, 2024>> }

ScowRows ==
  [ date : ScowDates, customer : {"IOT"},
    movement_type : {"Collection", "Delivery"}, time_out : ScowTimes,
    time_in : {<<19, 0>>}, status : {"Full", "Empty"}, num_of_scows : {2} ]

BinDispatchRows ==
  [ day : {"PH"}, date : {<<1, 5, 2024>>},
    movement_type : {"OUT"}, customer : {"IOT"},
    operation_type : {"Bin Dispatch to IOT"}, total_tonnage : {-20},
    overtime_tonnage : {"", "5"} ]

full_scows ==
  /\ sheet_name = "ScowTransfer"
  /\ pipeline' = "full_scows"
  /\ \E n_threads \in 1..MaxThreads :
       result' = full_scows_frame(activity, other_df, price_sheet, CURRENT_YEAR,
                                  n_threads)
  /\ UNCHANGED <<price_sheet, sheet_name, activity, other_df, CURRENT_YEAR, loader>>

empty_scows ==
  /\ sheet_name = "ScowTransfer"
  /\ pipeline' = "empty_scows"
  /\ \E n_threads \in 1..MaxThreads :
       result' = empty_scows_frame(activity, price_sheet, CURRENT_YEAR, n_threads)
  /\ UNCHANGED <<price_sheet, sheet_name, activity, other_df, CURRENT_YEAR, loader>>

InitScows ==
  /\ price_sheet \in [1..1 -> [Service : {CCCS_MOVEMENT}, Price : {3}, Date : PriceDates]]
  /\ sheet_name = "ScowTransfer"
  /\ activity \in SeqsOf(ScowRows, 1, MaxScows)
  /\ other_df \in SeqsOf(BinDispatchRows, 0, 1)
  /\ CURRENT_YEAR \in Years
  /\ pipeline = "none"
  /\ result = NoResult
  /\ NoLoader

NextScows ==
  \/ full_scows
  \/ empty_scows

SpecScows == InitScows /\ [][NextScows]_vars

\* ------------------------------------------------ the pre-trip inspections
EmrSheet ==
  << [Service |-> "PTI Magnum", Price |-> 7, Date |-> <<15, 1, 2024>>],
     [Service |-> "Plugin", Price |-> 3, Date |-> <<15, 1, 2024>>],
     [Service |-> "PTI S Freezer", Price |-> 9, Date |-> <<15, 1, 2024>>],
     [Service |-> "Shifting", Price |-> 11, Date |-> <<15, 1, 2024>>],
     [Service |-> "PTI Standard", Price |-> 5, Date |-> <<15, 1, 2024>>],
     [Service |-> "Container Cleaning", Price |-> 13, Date |-> <<15, 1, 2024>>] >>

\* an inspection from 04/02 08:00 to 10:00, to 05/02 14:00 or still open,
\* or from 05/02 10:00 or 12:00 to 14:00
PtiTimes ==
  { << <<4, 2, 2024, 8, 0>>, <<4, 2, 2024, 10, 0>> >>,
    << <<4, 2, 2024, 8, 0>>, <<5, 2, 2024, 14, 0>> >>,
    << <<4, 2, 2024, 8, 0>>, <<>> >>,
    << <<5, 2, 2024, 10, 0>>, <<5, 2, 2024, 14, 0>> >>,
    << <<5, 2, 2024, 12, 0>>, <<5, 2, 2024, 14, 0>> >> }

PtiRows ==
  { [ datetime_start |-> t[1], container_number |-> c, set_point |-> "-25",
      datetime_end |-> t[2], status |-> "PASSED", invoice_to |-> "MAERSKLINE",
      plugged_on |-> g ] :
      t \in PtiTimes, c \in {"C1", "C2"}, g \in {"G1", "G2", ""} }

pti ==
  /\ sheet_name = "PTI"
  /\ pipeline' = "pti"
  /\ result' = pti_frame(activity, price_sheet)
  /\ UNCHANGED <<price_sheet, sheet_name, activity, other_df, CURRENT_YEAR, loader>>

InitPti ==
  /\ price_sheet = EmrSheet
  /\ sheet_name = "PTI"
  /\ activity \in SeqsOf(PtiRows, 1, MaxPti)
  /\ other_df = <<>>
  /\ CURRENT_YEAR \in Years
  /\ pipeline = "none"
  /\ result = NoResult
  /\ NoLoader

NextPti == pti

SpecPti == InitPti /\ [][NextPti]_vars

\* ----------------------------------- the flat pipelines on priced services
FlatBasePrices == {2, 3}

\* a price sheet with one entry per service, all in force from 15/01/2024
FlatSheet(p) ==
  << [Service |-> "Tipping Truck", Price |-> p + 4, Date |-> <<15, 1, 2024>>],
     [Service |-> "Loading to Cargo", Price |-> p + 3, Date |-> <<15, 1, 2024>>],
     [Service |-> "CCCS Movement in/out", Price |-> p, Date |-> <<15, 1, 2024>>],
     [Service |-> "Static Loader", Price |-> 5 * p, Date |-> <<15, 1, 2024>>],
     [Service |-> "Cross Stuffing", Price |-> p + 1, Date |-> <<15, 1, 2024>>],
     [Service |-> "CCCS (By-Catch)", Price |-> p + 2, Date |-> <<15, 1, 2024>>],
     [Service |-> "Transfer of by-catch", Price |-> p + 5, Date |-> <<15, 1, 2024>>],
     [Service |-> "Container Stuffing by Hand", Price |-> p + 6,
      Date |-> <<15, 1, 2024>>] >>

FlatDays == {"Tue", "Sun"}

FlatOvertimes == {0, 5}

\* rows of the CCCSReport sheet: bin dispatches with or without a static
\* loader, cargo dispatches in both directions, unloadings trucked to CCCS
FlatCCCSRows ==
  [ day : FlatDays, date : {<<4, 2, 2024>>}, movement_type : {"IN"},
    customer : {"IOT"}, vessel : {"V1"}, operation_type : {"Bin Dispatch to IOT"},
    total_tonnage : {20}, static_loader : {0, 20}, overtime_tonnage : FlatOvertimes ]
  \cup
  [ day : FlatDays, date : {<<4, 2, 2024>>}, movement_type : {"IN"},
    customer : {"IOT", "DARDANEL"}, vessel : {"V1"},
    operation_type : {"Dispatch to Cargo Vessel", "Sorting from Unloading"},
    total_tonnage : {20}, static_loader : {0}, overtime_tonnage : FlatOvertimes ]
  \cup
  [ day : FlatDays, date : {<<4, 2, 2024>>}, movement_type : {"OUT"},
    customer : {"IOT"}, vessel : {"V1"},
    operation_type : {"Dispatch from Cargo Vessel"},
    total_tonnage : {-20}, static_loader : {0}, overtime_tonnage : FlatOvertimes ]

\* unloadings of a by-catch customer, and the transfers recorded for them
ByCatchRows ==
  [ day : FlatDays, date : {<<4, 2, 2024>>}, movement_type : {"IN"},
    customer : {"AMIRANTE"}, vessel : {"V1"},
    operation_type : {"Sorting from Unloading", "Unsorted from Unloading"},
    total_tonnage : {20}, static_loader : {0}, overtime_tonnage : FlatOvertimes ]

TransferRows ==
  [ date : {<<4, 2, 2024>>}, movement_type : {"IN"}, customer : {"AMIRANTE"},
    vessel : {"V1"}, service : {"Transfer of by-catch"},
    total_tonnage : {8, 20}, overtime_tonnage : {0} ]

StuffingRows(services) ==
  [ day : SaltDays, date : {<<4, 2, 2024>>}, Service : services,
    total_tonnage : {20}, overtime_tonnage : FlatOvertimes ]

BinTippingRows ==
  [ Date : ActivityDates, Tonnage : {0, 20}, Overtime : FlatOvertimes ]

InitFlat ==
  /\ price_sheet \in { FlatSheet(p) : p \in FlatBasePrices }
  /\ CURRENT_YEAR \in Years
  /\ pipeline = "none"
  /\ result = NoResult
  /\ NoLoader
  /\ \/ /\ sheet_name = "CCCSReport"
        /\ activity \in SeqsOf(FlatCCCSRows, 1, MaxRows)
        /\ other_df = <<>>
     \/ /\ sheet_name = "CCCSReport"
        /\ activity \in SeqsOf(ByCatchRows, 1, MaxRows)
        /\ other_df \in SeqsOf(TransferRows, 0, MaxTransfers)
     \/ /\ sheet_name = "CrossStuffing"
        /\ activity \in SeqsOf(StuffingRows({"Cross Stuffing"}), 1, MaxRows)
        /\ other_df = <<>>
     \/ /\ sheet_name = "CCCSContainerStuffing"
        /\ activity \in SeqsOf(StuffingRows({"Container Stuffing by Hand"}), 1, MaxRows)
        /\ other_df = <<>>
     \/ /\ sheet_name = "BinTipping"
        /\ activity \in SeqsOf(BinTippingRows, 1, MaxRows)
        /\ other_df = <<>>

NextFlat ==
  \/ static_loader
  \/ dispatch_to_cargo
  \/ truck_to_cccs
  \/ cross_stuffing
  \/ by_catch
  \/ cccs_stuffing
  \/ bin_tipping

SpecFlat == InitFlat /\ [][NextFlat]_vars

\* ------------------------ by-catch with two transfers recorded on the sheet
InitByCatch ==
  /\ price_sheet \in { FlatSheet(p) : p \in FlatBasePrices }
  /\ CURRENT_YEAR \in Years
  /\ pipeline = "none"
  /\ result = NoResult
  /\ NoLoader
  /\ sheet_name = "CCCSReport"
  /\ activity \in SeqsOf(ByCatchRows, 1, 1)
  /\ other_df \in SeqsOf(TransferRows, 2, 2)

NextByCatch == by_catch

SpecByCatch == InitByCatch /\ [][NextByCatch]_vars

\* ------------------------------- the as-of joins on dated price entries
\* the fee row every miscellaneous pipeline reads first
FeeRow == [Service |-> "CCCS Movement in/out", Price |-> 1, Date |-> <<15, 1, 2024>>]

\* price sheets with up to MaxPrices dated entries of the given services,
\* in any order, after the given leading rows
AsofSheets(lead, services) ==
  { lead \o rows : rows \in SeqsOf(PriceRows(services), 0, MaxPrices) }

AsofCCCSRows ==
  [ day : {"Tue"}, date : ActivityDates, movement_type : {"IN"},
    customer : {"IOT"}, vessel : {"V1"},
    operation_type : {"Bin Dispatch to IOT", "Dispatch to Cargo Vessel",
                      "Sorting from Unloading"},
    total_tonnage : {20}, static_loader : {20}, overtime_tonnage : {0} ]

AsofByCatchRows ==
  [ day : {"Tue"}, date : ActivityDates, movement_type : {"IN"},
    customer : {"AMIRANTE"}, vessel : {"V1"},
    operation_type : {"Sorting from Unloading"},
    total_tonnage : {20}, static_loader : {0}, overtime_tonnage : {0} ]

AsofStuffingRows(services) ==
  [ day : {"Tue"}, date : ActivityDates, Service : services,
    total_tonnage : {20}, overtime_tonnage : {0} ]

NetListRows ==
  [ date : ActivityDates, destination : {"IOT", "IOTU1"}, storage_type : {"Brine"},
    overtime : {"normal hours"}, total_tonnage : {20}, customer : {"IOT"},
    stuffing : {"Container Stuffing"} ]

WellToWellRows ==
  [ day : {"Tue"}, date : ActivityDates, total_tonnage : {20} ]

InitAsof ==
  /\ CURRENT_YEAR \in Years
  /\ pipeline = "none"
  /\ result = NoResult
  /\ NoLoader
  /\ other_df = <<>>
  /\ \/ /\ sheet_name = "CCCSReport"
        /\ price_sheet \in AsofSheets(<<FeeRow>>, {"Static Loader", "Tipping Truck"})
        /\ activity \in SeqsOf(AsofCCCSRows, 1, MaxRows)
     \/ /\ sheet_name = "CCCSReport"
        /\ price_sheet \in AsofSheets(<<FeeRow>>, {"CCCS (By-Catch)"})
        /\ activity \in SeqsOf(AsofByCatchRows, 1, MaxRows)
     \/ /\ sheet_name = "CrossStuffing"
        /\ price_sheet \in AsofSheets(<<>>, {"Cross Stuffing"})
                             \cup AsofSheets(<<FeeRow>>, {"Cross Stuffing"})
        /\ activity \in SeqsOf(AsofStuffingRows({"Cross Stuffing"}), 1, MaxRows)
     \/ /\ sheet_name = "CCCSContainerStuffing"
        /\ price_sheet \in AsofSheets(<<FeeRow>>, {"Container Stuffing by Hand"})
        /\ activity \in SeqsOf(AsofStuffingRows({"Container Stuffing by Hand"}), 1, MaxRows)
     \/ /\ sheet_name = "UnloadingSummary"
        /\ price_sheet \in AsofSheets(<<>>, {"Unload to Quay - Brine", "Stuffing"})
        /\ activity \in SeqsOf(NetListRows, 1, MaxRows)
     \/ /\ sheet_name = "WelltoWell"
        /\ price_sheet \in AsofSheets(<<>>, {"Well to Well Transfer"})
        /\ activity \in SeqsOf(WellToWellRows, 1, MaxRows)

NextAsof ==
  \/ static_loader
  \/ dispatch_to_cargo
  \/ truck_to_cccs
  \/ cross_stuffing
  \/ by_catch
  \/ cccs_stuffing
  \/ net_list
  \/ iot_stuffing
  \/ hatch_to_hatch

SpecAsof == InitAsof /\ [][NextAsof]_vars

\* ------------------------- the scalar prices on several dated price entries
ScalarSaltRows ==
  [ day_name : {"Tue"}, date : ActivityDates, start_time : {<<8, 0>>},
    end_time : {<<9, 0>>},
    operation_type : {"Loading (Quay to Ship)", "Loading @ Zone 14"},
    tonnage : {10} ]

InitScalar ==
  /\ price_sheet \in SeqsOf(PriceRows(SALT_SERVICES \cup {CCCS_MOVEMENT}), 1, MaxPrices)
  /\ CURRENT_YEAR \in Years
  /\ pipeline = "none"
  /\ result = NoResult
  /\ NoLoader
  /\ other_df = <<>>
  /\ \/ /\ sheet_name = "SaltOperation"
        /\ activity \in [1..1 -> ScalarSaltRows]
     \/ /\ sheet_name = "BinTipping"
        /\ activity \in SeqsOf(BinTippingRows, 1, 1)

NextScalar ==
  \/ salt
  \/ bin_tipping

SpecScalar == InitScalar /\ [][NextScalar]_vars

\* ------------------------------------ the day names derived from the dates
\* 15/01/2024 is a Monday, 04/02/2024 a Sunday, 31/03/2024 Easter Sunday,
\* 01/05/2024 a Wednesday, 08/12/2024 a Sunday and 09/12/2024 the Monday
\* after it
DayDates ==
  { <<15, 1, 2024>>, <<4, 2, 2024>>, <<31, 3, 2024>>, <<1, 5, 2024>>,
    <<8, 12, 2024>>, <<9, 12, 2024>> }

\* the sheets hold the records of 2024; the process starts in 2024 or in 2026
RunYears == {2024, 2026}

InitDays ==
  /\ price_sheet = FlatSheet(2)
  /\ CURRENT_YEAR \in RunYears
  /\ pipeline = "none"
  /\ result = NoResult
  /\ NoLoader
  /\ \/ /\ sheet_name = "BinTipping"
        /\ activity \in SeqsOf([Date : DayDates, Tonnage : {20}, Overtime : {0, 5}],
                               1, MaxRows)
        /\ other_df = <<>>
     \/ /\ sheet_name = "CCCSReport"
        /\ activity \in SeqsOf(ByCatchRows, 1, 1)
        /\ other_df \in SeqsOf([ date : DayDates, movement_type : {"IN"},
                                 customer : {"AMIRANTE"}, vessel : {"V1"},
                                 service : {"Transfer of by-catch"},
                                 total_tonnage : {8}, overtime_tonnage : {0} ],
                               1, MaxTransfers)

NextDays ==
  \/ bin_tipping
  \/ by_catch

SpecDays == InitDays /\ [][NextDays]_vars

\* --------------------------------------------- the holidays of every year
\* DayName.get_public_holidays(year), year defaulting to CURRENT_YEAR
public_holidays ==
  /\ sheet_name = "none"
  /\ pipeline' = "get_public_holidays"
  /\ result' = [status |-> "ok", rows |-> SortedList(get_public_holidays(CURRENT_YEAR))]
  /\ UNCHANGED <<price_sheet, sheet_name, activity, other_df, CURRENT_YEAR, loader>>

InitHolidays ==
  /\ price_sheet = <<>>
  /\ sheet_name = "none"
  /\ activity = <<>>
  /\ other_df = <<>>
  /\ CURRENT_YEAR \in min_year..max_year
  /\ pipeline = "none"
  /\ result = NoResult
  /\ NoLoader

NextHolidays == public_holidays

SpecHolidays == InitHolidays /\ [][NextHolidays]_vars

\* ------------------------------------------------ all_dataframes(), one run
MaxFailures == 2

RECURSIVE AtMost(_, _)
\* the subsets of S with at most k elements
AtMost(S, k) ==
  IF k = 0 THEN {{}}
  ELSE LET R == AtMost(S, k - 1) IN R \cup { r \cup {x} : r \in R, x \in S }

NoSheets ==
  /\ price_sheet = <<>>
  /\ sheet_name = "none"
  /\ activity = <<>>
  /\ other_df = <<>>
  /\ CURRENT_YEAR \in Years
  /\ pipeline = "none"
  /\ result = NoResult

sheets == <<price_sheet, sheet_name, activity, other_df, CURRENT_YEAR, pipeline, result>>

\* one DataFrameCollections.load_*_dataframes() returns to the gather of all_dataframes()
load_collection(c) ==
  /\ final_results = Pending
  /\ collections[c] = Pending
  /\ collections' = [collections EXCEPT ![c] = load_dataframes(c, raising)]
  /\ UNCHANGED <<fetcher, sheets, raising, final_results, fan_out, _dataframes, request>>

\* the gather of all_dataframes() has every loader's result: build final_results
all_dataframes ==
  /\ final_results = Pending
  /\ \A c \in collection_tasks : collections[c] # Pending
  /\ final_results' = all_dataframes_results(collections)
  /\ UNCHANGED <<fetcher, sheets, raising, collections, fan_out, _dataframes, request>>

InitLoad ==
  /\ NoSheets
  /\ raising \in AtMost(Pipelines, MaxFailures)
  /\ collections = [c \in collection_tasks |-> Pending]
  /\ final_results = Pending
  /\ fan_out = NoFanOut
  /\ _dataframes = <<>>
  /\ request = NoRequest
  /\ NoFetcher

NextLoad ==
  \/ \E c \in collection_tasks : load_collection(c)
  \/ all_dataframes

SpecLoad == InitLoad /\ [][NextLoad]_vars

\* ------------------------------------- save_df_to_csv_async("all"), one run
\* all_dataframes() creates every pipeline coroutine and gathers them
save_df_to_csv_async ==
  /\ fan_out.stage = "none"
  /\ fan_out' = [fan_out EXCEPT !.stage = "all_dataframes",
                                !.created = Cardinality(Pipelines)]
  /\ UNCHANGED <<fetcher, sheets, raising, collections, final_results, _dataframes, request>>

\* a pipeline coroutine reaches session.get(url) of load_gsheet_data
load_gsheet_data_get ==
  /\ fan_out.stage = "all_dataframes"
  /\ fan_out.created > 0
  /\ fan_out' = [fan_out EXCEPT !.created = @ - 1, !.fetching = @ + 1]
  /\ UNCHANGED <<fetcher, sheets, raising, collections, final_results, _dataframes, request>>

\* the response arrives and the pipeline returns its frame
load_gsheet_data_return ==
  /\ fan_out.stage = "all_dataframes"
  /\ fan_out.fetching > 0
  /\ fan_out' = [fan_out EXCEPT !.fetching = @ - 1, !.frames = @ + 1]
  /\ UNCHANGED <<fetcher, sheets, raising, collections, final_results, _dataframes, request>>

\* all_df is there: one bounded_save per frame, gathered under Semaphore(10)
gather_bounded_tasks ==
  /\ fan_out.stage = "all_dataframes"
  /\ fan_out.created = 0
  /\ fan_out.fetching = 0
  /\ fan_out' = [fan_out EXCEPT !.stage = "bounded_save", !.waiting = fan_out.frames,
                                !.semaphore = SemaphoreLimit]
  /\ UNCHANGED <<fetcher, sheets, raising, collections, final_results, _dataframes, request>>

\* async with semaphore: enter, and await save_to_csv_async
bounded_save_acquire ==
  /\ fan_out.stage = "bounded_save"
  /\ fan_out.waiting > 0
  /\ fan_out.semaphore > 0
  /\ fan_out' = [fan_out EXCEPT !.waiting = @ - 1, !.semaphore = @ - 1,
                                !.saving = @ + 1]
  /\ UNCHANGED <<fetcher, sheets, raising, collections, final_results, _dataframes, request>>

\* save_to_csv_async returned: leave the semaphore
bounded_save_release ==
  /\ fan_out.stage = "bounded_save"
  /\ fan_out.saving > 0
  /\ fan_out' = [fan_out EXCEPT !.saving = @ - 1, !.semaphore = @ + 1,
                                !.saved = @ + 1]
  /\ UNCHANGED <<fetcher, sheets, raising, collections, final_results, _dataframes, request>>

InitSave ==
  /\ NoSheets
  /\ NoLoader

NextSave ==
  \/ save_df_to_csv_async
  \/ load_gsheet_data_get
  \/ load_gsheet_data_return
  \/ gather_bounded_tasks
  \/ bounded_save_acquire
  \/ bounded_save_release

SpecSave == InitSave /\ [][NextSave]_vars

\* ------------------------------------------------ LazyDataFrameCollections
\* the collections the caller asks for
Requested == {"emr_dataframes", "bin_dispatch_dataframes"}

\* awaiting a coroutine object: its frame the first time, RuntimeError
\* ("cannot reuse already awaited coroutine") every time after
await(coroutine, p) ==
  IF coroutine = "created" THEN Returned(p) ELSE Raised("RuntimeError")

\* LazyDataFrameCollections.get_dataframe(collection, name)
get_dataframe(collection, name) ==
  /\ _dataframes # <<>>
  /\ request' = [method |-> "get_dataframe", collection |-> collection, name |-> name,
                 outcome |-> await(_dataframes[<<collection, name>>], <<collection, name>>)]
  /\ _dataframes' = [_dataframes EXCEPT ![<<collection, name>>] = "awaited"]
  /\ UNCHANGED <<fetcher, sheets, raising, collections, final_results, fan_out>>

\* LazyDataFrameCollections.get_collection(collection)
get_collection(collection) ==
  /\ _dataframes # <<>>
  /\ LET outcome == [n \in tasks[collection] |->
                        await(_dataframes[<<collection, n>>], <<collection, n>>)]
          results == gather(tasks[collection], outcome)
     IN  request' =
           [method |-> "get_collection", collection |-> collection, name |-> "none",
            outcome |->
              Returned([name \in { n \in tasks[collection] :
                                     results.value[n].status # "raised" } |->
                          results.value[name].value])]
  /\ _dataframes' = [p \in Pipelines |->
                       IF p[1] = collection THEN "awaited" ELSE _dataframes[p]]
  /\ UNCHANGED <<fetcher, sheets, raising, collections, final_results, fan_out>>

\* LazyDataFrameCollections(): _initialize_collections calls every pipeline once
InitLazy ==
  /\ NoSheets
  /\ raising = {}
  /\ collections = <<>>
  /\ final_results = Pending
  /\ fan_out = NoFanOut
  /\ _dataframes = [p \in Pipelines |-> "created"]
  /\ request = NoRequest
  /\ NoFetcher

NextLazy ==
  \/ \E c \in Requested : \E n \in tasks[c] : get_dataframe(c, n)
  \/ \E c \in Requested : get_collection(c)

SpecLazy == InitLazy /\ [][NextLazy]_vars

\* -------------------------------------- load_gsheet_data and its data_cache
MaxCallers == 2

MaxFetches == 2

\* the sheets asked for, as (sheet_id, sheet_name)
Sheets == { <<"MISC_SHEET_ID", "CCCSReport">>, <<"MASTER_ID", "Price">> }

\* what the CSV of a sheet holds when it is fetched
Contents == {"rows", "rows later"}

\* pl.LazyFrame()
EmptyLazyFrame == [sheet |-> <<>>, csv |-> "none"]

\* cache_key = f"{sheet_id}_{sheet_name}"
cache_key(sheet) == sheet[1] \o "_" \o sheet[2]

CacheKeys == { cache_key(sheet) : sheet \in Sheets }

\* what session.get, raise_for_status and pl.read_csv end with
Outcomes == {"ok", "ClientError", "ComputeError", "Exception"}

Idle == [pc |-> "idle", sheet |-> <<>>, outcome |-> "none", result |-> EmptyLazyFrame]

\* data_cache[key] = value
Store(cache, key, value) ==
  [k \in DOMAIN cache \cup {key} |-> IF k = key THEN value ELSE cache[k]]

\* variant: the empty frame of a failed load is cached like a result
Mut_load_gsheet_data_try(cache, sheet, outcome, csv) ==
  IF outcome = "ok"
    THEN [cache |-> Store(cache, cache_key(sheet), [sheet |-> sheet, csv |-> csv]),
          result |-> [sheet |-> sheet, csv |-> csv]]
    ELSE [cache |-> Store(cache, cache_key(sheet), EmptyLazyFrame),
          result |-> EmptyLazyFrame]

\* the try block of load_gsheet_data and its three except clauses
load_gsheet_data_try(cache, sheet, outcome, csv) ==
  IF outcome = "ok"
    THEN [cache |-> Store(cache, cache_key(sheet), [sheet |-> sheet, csv |-> csv]),
          result |-> [sheet |-> sheet, csv |-> csv]]
    ELSE [cache |-> cache, result |-> EmptyLazyFrame]

\* load_gsheet_data(sheet_id, sheet_name) up to its first await: the cached
\* frame, or the request
load_gsheet_data_call(c, sheet) ==
  /\ calls[c].pc # "get"
  /\ IF cache_key(sheet) \in DOMAIN data_cache
       THEN /\ calls' = [calls EXCEPT ![c] = [pc |-> "returned", sheet |-> sheet,
                                               outcome |-> "cached",
                                               result |-> data_cache[cache_key(sheet)]]]
            /\ UNCHANGED network
       ELSE /\ network.fetched[cache_key(sheet)] < MaxFetches
            /\ calls' = [calls EXCEPT ![c] = [pc |-> "get", sheet |-> sheet,
                                               outcome |-> "none",
                                               result |-> EmptyLazyFrame]]
            /\ network' = [network EXCEPT !.fetched[cache_key(sheet)] = @ + 1]
  /\ UNCHANGED <<sheets, raising, collections, final_results, fan_out, _dataframes,
                 request, data_cache>>

\* the response is there (or the error): the rest of load_gsheet_data
load_gsheet_data_response(c, outcome, csv) ==
  /\ calls[c].pc = "get"
  /\ LET try == load_gsheet_data_try(data_cache, calls[c].sheet, outcome, csv)
     IN  /\ data_cache' = try.cache
         /\ calls' = [calls EXCEPT ![c] = [pc |-> "returned", sheet |-> calls[c].sheet,
                                            outcome |-> outcome, result |-> try.result]]
  /\ UNCHANGED <<sheets, raising, collections, final_results, fan_out, _dataframes,
                 request, network>>

\* clear_data_cache()
clear_data_cache ==
  /\ DOMAIN data_cache # {}
  /\ data_cache' = <<>>
  /\ network' = [network EXCEPT !.cleared = TRUE]
  /\ UNCHANGED <<sheets, raising, collections, final_results, fan_out, _dataframes,
                 request, calls>>

InitFetch ==
  /\ NoSheets
  /\ raising = {}
  /\ collections = <<>>
  /\ final_results = Pending
  /\ fan_out = NoFanOut
  /\ _dataframes = <<>>
  /\ request = NoRequest
  /\ data_cache = <<>>
  /\ calls = [c \in 1..MaxCallers |-> Idle]
  /\ network = [fetched |-> [k \in CacheKeys |-> 0], cleared |-> FALSE]

NextFetch ==
  \/ \E c \in 1..MaxCallers : \E sheet \in Sheets : load_gsheet_data_call(c, sheet)
  \/ \E c \in 1..MaxCallers : \E outcome \in Outcomes : \E csv \in Contents :
       load_gsheet_data_response(c, outcome, csv)
  \/ clear_data_cache

SpecFetch == InitFetch /\ [][NextFetch]_vars

\* --------------------------------------------------------- print_dataframe
MaxDataframeLen == 60

DATAFRAME_LEN_THRESHOLD == 50

MIN_LEN_DATAFRAME == 30

\* the rows print(dataframe) shows under Config.set_tbl_rows(value): all of
\* them when they fit, else the first and the last ones around an ellipsis
tbl_rows(dataframe, value) ==
  IF Len(dataframe) <= value THEN dataframe
  ELSE SubSeq(dataframe, 1, value - value \div 2)
         \o SubSeq(dataframe, Len(dataframe) - value \div 2 + 1, Len(dataframe))

\* print_dataframe(dataframe): lines 64 to 66 set value, line 71 uses it
print_dataframe_rows(dataframe, max_lenght, min_lenght) ==
  LET value_if == IF Len(dataframe) > max_lenght THEN min_lenght ELSE 0
      value == Len(dataframe)
  IN  tbl_rows(dataframe, value)

print_dataframe ==
  /\ sheet_name = "DataFrame"
  /\ pipeline' = "print_dataframe"
  /\ result' = [status |-> "ok",
                rows |-> print_dataframe_rows(activity, DATAFRAME_LEN_THRESHOLD,
                                              MIN_LEN_DATAFRAME)]
  /\ UNCHANGED <<price_sheet, sheet_name, activity, other_df, CURRENT_YEAR, loader>>

InitPrint ==
  /\ price_sheet = <<>>
  /\ sheet_name = "DataFrame"
  /\ activity \in { [i \in 1..n |-> [col1 |-> i, col2 |-> "example"]] :
                      n \in 0..MaxDataframeLen }
  /\ other_df = <<>>
  /\ CURRENT_YEAR \in Years
  /\ pipeline = "none"
  /\ result = NoResult
  /\ NoLoader

NextPrint == print_dataframe

SpecPrint == InitPrint /\ [][NextPrint]_vars

(***************************************************************************)
(* Claims about the salt allocator, checked under SpecSalt                 *)
(***************************************************************************)
SaltRan == pipeline = "salt" /\ result.status = "ok"

\* the parsed input row and the output row of the salt run
SaltIn == salt_select(activity[1])

SaltOut == result.rows[1]

SaltSplitIs(n, o15, o20) ==
  /\ SaltOut.normal = n
  /\ SaltOut.overtime_150 = o15
  /\ SaltOut.overtime_200 = o20

\* the applicable cutoff of a row
SaltCutoff(r) ==
  IF r.day_name \in SPECIAL_DAYS THEN UPPER_BOUND_SPECIAL_DAY ELSE UPPER_BOUND

\* C1 (as claimed): for every salt row the three allocated amounts normal +
\* overtime_150 + overtime_200 equal the row's tonnage.
C1_SplitTotality ==
  SaltRan =>
    FAdd(FAdd(SaltOut.normal, SaltOut.overtime_150), SaltOut.overtime_200)
      = Lit(SaltIn.tonnage)

\* C3 (as claimed): on a normal day an interval that starts at or after 17:00
\* and has end_time < start_time gets normal = 0, overtime_150 = the share of
\* [start, 24:00) and overtime_200 = the share of [00:00, end) of the tonnage.
C3_MidnightNormalDay ==
  (SaltRan /\ SaltIn.day_name \notin SPECIAL_DAYS
     /\ SaltIn.start_time >= UPPER_BOUND /\ SaltIn.end_time < SaltIn.start_time) =>
    LET total == (ONE_DAY - SaltIn.start_time) + SaltIn.end_time
    IN  SaltSplitIs(Lit(0),
                    F(SaltIn.tonnage * (ONE_DAY - SaltIn.start_time), total),
                    F(SaltIn.tonnage * SaltIn.end_time, total))

\* the split of C3 does hold for the intervals whose end_time is also at most
\* 07:59 (MORNING_CUTOFF), the only ones the code treats as crossing midnight
C3_MidnightNormalDayUntilMorning ==
  (SaltRan /\ SaltIn.day_name \notin SPECIAL_DAYS
     /\ SaltIn.start_time >= UPPER_BOUND /\ SaltIn.end_time < SaltIn.start_time
     /\ SaltIn.end_time <= MORNING_CUTOFF) =>
    LET total == (ONE_DAY - SaltIn.start_time) + SaltIn.end_time
    IN  SaltSplitIs(Lit(0),
                    F(SaltIn.tonnage * (ONE_DAY - SaltIn.start_time), total),
                    F(SaltIn.tonnage * SaltIn.end_time, total))

\* the example of C3: Tuesday 22:00 to 02:00, tonnage 10, split (0, 5, 5)
C3_Witness ==
  /\ SaltRan
  /\ SaltIn.day_name = "Tue" /\ SaltIn.tonnage = 10
  /\ SaltIn.start_time = 22 * 60 /\ SaltIn.end_time = 2 * 60
  /\ SaltSplitIs(Lit(0), Lit(5), Lit(5))

\* C4 (as claimed): an interval fully before the applicable cutoff
\* (start < end <= 17:00 on a normal day, <= 16:00 on a Sunday or public
\* holiday) is allocated 100% to the normal bucket.
C4_BeforeCutoffAllNormal ==
  (SaltRan /\ SaltIn.start_time < SaltIn.end_time
     /\ SaltIn.end_time <= SaltCutoff(SaltIn)) =>
    SaltSplitIs(Lit(SaltIn.tonnage), Lit(0), Lit(0))

\* C5: on a normal day with start < 17:00 < end the tonnage is split
\* (17:00 - start) : (end - 17:00) between normal and overtime_150, nothing
\* goes to overtime_200, and the price is the salt price times
\* normal * 1.0 + overtime_150 * 1.5 + overtime_200 * 2.0.
C5_StraddleNormalDay ==
  (SaltRan /\ SaltIn.day_name \notin SPECIAL_DAYS
     /\ SaltIn.start_time < UPPER_BOUND /\ UPPER_BOUND < SaltIn.end_time) =>
    LET len == SaltIn.end_time - SaltIn.start_time
        p   == price_sheet[1].Price
    IN  /\ SaltSplitIs(F(SaltIn.tonnage * (UPPER_BOUND - SaltIn.start_time), len),
                       F(SaltIn.tonnage * (SaltIn.end_time - UPPER_BOUND), len),
                       Lit(0))
        /\ SaltOut.price =
             F(p * SaltIn.tonnage
                 * (2 * (UPPER_BOUND - SaltIn.start_time)
                    + 3 * (SaltIn.end_time - UPPER_BOUND)),
               2 * len)

\* C5 witness: Tuesday 08:00 to 19:00, tonnage 100, price 2.0: 9/11 and 2/11
\* of the tonnage and a price of 2400/11 = 218.18
C5_Witness ==
  /\ SaltRan
  /\ SaltIn.day_name = "Tue" /\ SaltIn.tonnage = 100
  /\ SaltIn.start_time = 8 * 60 /\ SaltIn.end_time = 19 * 60
  /\ price_sheet[1].Price = 2
  /\ SaltSplitIs(F(900, 11), F(200, 11), Lit(0))
  /\ SaltOut.price = F(2400, 11)

\* C7: on a normal day an interval with 17:00 <= start < end goes 100% to the
\* 150% bucket, and a normal-day interval that does not run past midnight has
\* no duration and no tonnage in the 200% bucket.
C7_AfterCutoffNormalDay ==
  (SaltRan /\ SaltIn.day_name \notin SPECIAL_DAYS) =>
    /\ (UPPER_BOUND <= SaltIn.start_time /\ SaltIn.start_time < SaltIn.end_time)
         => SaltSplitIs(Lit(0), Lit(SaltIn.tonnage), Lit(0))
    /\ SaltIn.start_time <= SaltIn.end_time => salt_overtime_200(SaltIn) = 0
    /\ SaltIn.start_time < SaltIn.end_time => SaltOut.overtime_200 = Lit(0)

\* C7 witness: Tuesday 19:00 to 22:00, everything in the 150% bucket
C7_Witness ==
  /\ SaltRan
  /\ SaltIn.day_name = "Tue"
  /\ SaltIn.start_time = 19 * 60 /\ SaltIn.end_time = 22 * 60
  /\ SaltSplitIs(Lit(0), Lit(SaltIn.tonnage), Lit(0))

\* C8 (as claimed): a zero-length interval (start_time = end_time) yields the
\* split (tonnage, 0, 0).
C8_ZeroLengthAllNormal ==
  (SaltRan /\ SaltIn.start_time = SaltIn.end_time) =>
    SaltSplitIs(Lit(SaltIn.tonnage), Lit(0), Lit(0))

(***************************************************************************)
(* Claims about the flat two-tier rule, checked under SpecFlat             *)
(***************************************************************************)
\* the rule as stated: (total - overtime) * price at 1.0 and overtime * price
\* at 1.5 on a day outside {Sun, PH}, at 1.5 and 2.0 on a day inside; price
\* is the fraction pn / pd
TwoTier(day, total, overtime, price) ==
  IF day \in {"Sun", "PH"}
  THEN F(price.n * (3 * (total - overtime) + 4 * overtime), 2 * price.d)
  ELSE F(price.n * (2 * (total - overtime) + 3 * overtime), 2 * price.d)

\* the day name, the tonnages and the unit price of an output row of the
\* pipeline that ran last
FlatDay(x) == IF pipeline \in {"dispatch_to_cargo", "bin_tipping"} THEN x.day_name ELSE x.day

FlatTotal(x) ==
  IF pipeline = "static_loader" THEN x.static_loader
  ELSE IF pipeline = "bin_tipping" THEN x.Tonnage
  ELSE x.total_tonnage

FlatOvertime(x) == IF pipeline = "bin_tipping" THEN x.Overtime ELSE x.overtime_tonnage

FlatPrice(x) ==
  IF pipeline = "dispatch_to_cargo"
  THEN FAdd(FAdd(x.truck_price, x.stevedores_on_cargo_fee), x.cccs_movement_fee)
  ELSE IF pipeline = "truck_to_cccs" THEN FAdd(x.Price, x.CCCS_incoming_fee)
  ELSE IF pipeline = "bin_tipping" THEN x.price
  ELSE x.Price

FlatRan ==
  /\ pipeline \in { "static_loader", "dispatch_to_cargo", "truck_to_cccs",
                    "cross_stuffing", "by_catch", "cccs_stuffing", "bin_tipping" }
  /\ result.status = "ok"

\* C6: every row a flat-rate pipeline emits with a price has total_price =
\* (total - overtime) * price * 1.0 + overtime * price * 1.5 when its day name
\* is not Sun or PH, and (total - overtime) * price * 1.5 + overtime * price *
\* 2.0 when it is.
C6_FlatTwoTier ==
  FlatRan =>
    \A i \in 1..Len(result.rows) :
      LET x == result.rows[i]
      IN  IsFin(FlatPrice(x)) =>
            x.total_price = TwoTier(FlatDay(x), FlatTotal(x), FlatOvertime(x), FlatPrice(x))

\* C6 witness: the static loader on a Sunday with tonnage 20, overtime 5 and
\* price 10 is billed 325
C6_Witness ==
  /\ pipeline = "static_loader" /\ result.status = "ok"
  /\ \E i \in 1..Len(result.rows) :
       /\ result.rows[i].day = "Sun"
       /\ result.rows[i].static_loader = 20
       /\ result.rows[i].overtime_tonnage = 5
       /\ result.rows[i].Price = Lit(10)
       /\ result.rows[i].total_price = Lit(325)

(***************************************************************************)
(* Claims about as-of pricing, checked under SpecAsof and SpecScalar       *)
(***************************************************************************)
\* the entries of a service in force on a date, and the latest of them
Eligible(service, date) ==
  { j \in 1..Len(price_sheet) :
      price_sheet[j].Service = service /\ ToDate(price_sheet[j].Date) <= date }

Latest(service, date) ==
  { j \in Eligible(service, date) :
      \A k \in Eligible(service, date) :
        ToDate(price_sheet[k].Date) <= ToDate(price_sheet[j].Date) }

\* the price of the entry with the greatest effective date <= date
PriceAsOf(service, date) ==
  { Lit(price_sheet[j].Price) : j \in Latest(service, date) }

\* the service, the date and the attached price of an output row of the
\* joining pipeline that ran last
AsofService(x) ==
  IF pipeline \in {"static_loader", "cross_stuffing", "cccs_stuffing"} THEN x.Service
  ELSE IF pipeline \in {"dispatch_to_cargo", "truck_to_cccs"} THEN "Tipping Truck"
  ELSE IF pipeline = "by_catch" THEN x.operation_type
  ELSE IF pipeline = "net_list" THEN x.service \o " - " \o x.storage_type
  ELSE IF pipeline = "iot_stuffing" THEN "Stuffing"
  ELSE "Well to Well Transfer"

AsofDate(x) == IF pipeline = "hatch_to_hatch" THEN ToDate(x.date) ELSE x.date

AsofAttached(x) == IF pipeline = "dispatch_to_cargo" THEN x.truck_price ELSE x.Price

JoinRan ==
  /\ pipeline \in { "static_loader", "dispatch_to_cargo", "truck_to_cccs",
                    "cross_stuffing", "by_catch", "cccs_stuffing", "net_list",
                    "hatch_to_hatch" }
  /\ result.status = "ok"

\* C2 (as claimed): in every pipeline that joins to the price list the Price
\* attached to an activity row is the price of the entry with the greatest
\* effective date <= the row's date among the entries of the row's Service.
C2_AsofPricing ==
  JoinRan =>
    \A i \in 1..Len(result.rows) :
      LET x == result.rows[i]
      IN  Eligible(AsofService(x), AsofDate(x)) # {} =>
            AsofAttached(x) \in PriceAsOf(AsofService(x), AsofDate(x))

\* C9 (as claimed): a pipeline never emits a row whose service has no price
\* entry in force on the row's date; the lookup fails instead.
C9_PriceNotFound ==
  (JoinRan \/ (pipeline = "iot_stuffing" /\ result.status = "ok")) =>
    \A i \in 1..Len(result.rows) :
      Eligible(AsofService(result.rows[i]), AsofDate(result.rows[i])) # {}

\* C10 (as claimed): salt and bin_tipping price each row at the rate in force
\* on the row's own date for the row's service: a salt row worked in normal
\* hours costs tonnage times that rate, a bin tipping row carries that rate.
C10_HistoricalScalarPrice ==
  /\ (pipeline = "salt" /\ result.status = "ok") =>
       \A i \in 1..Len(result.rows) :
         LET x == result.rows[i]
         IN  Eligible(x.operation_type, x.date) # {} =>
               x.price \in { FMul(Lit(x.tonnage), p) :
                              p \in PriceAsOf(x.operation_type, x.date) }
  /\ (pipeline = "bin_tipping" /\ result.status = "ok") =>
       \A i \in 1..Len(result.rows) :
         LET x == result.rows[i]
         IN  Eligible(CCCS_MOVEMENT, x.Date) # {} =>
               x.price \in PriceAsOf(CCCS_MOVEMENT, x.Date)

(***************************************************************************)
(* Claims about the order of the input rows, checked under SpecAsof        *)
(***************************************************************************)
\* the orders in which the rows of a sheet can arrive
Orders(rows) ==
  { [i \in 1..Len(rows) |-> rows[f[i]]] : f \in Permutations(1..Len(rows)) }

\* the price attached to each activity row of a frame
Attached(rows) ==
  { <<AsofService(rows[i]), AsofDate(rows[i]), AsofAttached(rows[i])>> :
      i \in 1..Len(rows) }

\* no service has two price entries of the same effective date
OneEntryPerDate ==
  \A j, k \in 1..Len(price_sheet) :
    (price_sheet[j].Service = price_sheet[k].Service
       /\ price_sheet[j].Date = price_sheet[k].Date) => j = k

\* the pipeline that ran last, run again on other orders of its inputs
Reordered(rows, sheet, n_threads) ==
  IF pipeline = "cross_stuffing" THEN cross_stuffing_frame(rows, sheet, n_threads)
  ELSE hatch_to_hatch_frame(rows, sheet, n_threads)

\* C11 (as claimed): the price cross_stuffing and hatch_to_hatch attach to an
\* activity row is the same for every order of the activity rows and every
\* order of the price rows.
C11_OrderIndependence ==
  (pipeline \in {"cross_stuffing", "hatch_to_hatch"} /\ result.status = "ok"
     /\ OneEntryPerDate) =>
    \A rows \in Orders(activity), sheet \in Orders(price_sheet),
       n_threads \in 1..MaxThreads :
      Attached(Reordered(rows, sheet, n_threads).rows) = Attached(result.rows)

(***************************************************************************)
(* Claims about the by-catch family, checked under SpecFlat                *)
(***************************************************************************)
ByCatchRan == pipeline = "by_catch" /\ result.status = "ok"

\* the frames by_catch() reads and the three frames it concatenates
ByCatchDf == by_catch_rows(activity)

ByCatchOther == by_catch_transfer(other_df, CURRENT_YEAR)

ByCatchBoth == by_catch_with_transfer(ByCatchDf, ByCatchOther)

ByCatchOnly == by_catch_only(ByCatchDf, ByCatchBoth, ByCatchOther)

Keys(rows) == { transfer_key(rows[i]) : i \in 1..Len(rows) }

\* C12 (as claimed): the three frames by_catch() concatenates have no key
\* (date, customer, vessel, movement_type) in common; a by-catch key without
\* a transfer is in the first only, a transfer key without a by-catch in the
\* second only, and the key of a by-catch/transfer pair in the third only.
C12_ByCatchPartition ==
  ByCatchRan =>
    /\ Keys(ByCatchOnly) \cap Keys(ByCatchOther) = {}
    /\ Keys(ByCatchOnly) \cap Keys(ByCatchBoth) = {}
    /\ Keys(ByCatchOther) \cap Keys(ByCatchBoth) = {}
    /\ Keys(ByCatchOnly) = Keys(ByCatchDf) \ Keys(ByCatchOther)
    /\ \A k \in Keys(ByCatchOther) \ Keys(ByCatchDf) :
         k \notin Keys(ByCatchOnly) \cup Keys(ByCatchBoth)
    /\ \A k \in Keys(ByCatchDf) \cap Keys(ByCatchOther) :
         k \in Keys(ByCatchBoth) /\ k \notin Keys(ByCatchOnly) \cup Keys(ByCatchOther)

\* the rows by_catch() emits for a by-catch group
NettedRows(d) ==
  { i \in 1..Len(result.rows) :
      /\ result.rows[i].operation_type = "CCCS (By-Catch)"
      /\ result.rows[i].day = d.day /\ result.rows[i].date = d.date
      /\ result.rows[i].customer = d.customer /\ result.rows[i].vessel = d.vessel }

\* C13: a by-catch group with a transfer of the same key (date, customer,
\* vessel, movement_type) is emitted with total_tonnage and overtime_tonnage
\* reduced by the transfer's and priced on the reduced tonnage; when the
\* reduced total_tonnage is zero no row is emitted for the pair, so that no
\* 'CCCS (By-Catch)' row of the group has a total_tonnage of zero.
C13_ByCatchNetting ==
  ByCatchRan =>
    \A i \in 1..Len(ByCatchDf), j \in 1..Len(ByCatchOther) :
      LET d == ByCatchDf[i]
          t == ByCatchOther[j]
      IN  transfer_key(d) = transfer_key(t) =>
            IF d.total_tonnage - t.total_tonnage = 0
            THEN \A k \in NettedRows(d) : result.rows[k].total_tonnage # 0
            ELSE \E k \in NettedRows(d) :
                   LET x == result.rows[k]
                   IN  /\ x.total_tonnage = d.total_tonnage - t.total_tonnage
                       /\ x.overtime_tonnage = d.overtime_tonnage - t.overtime_tonnage
                       /\ IsFin(x.Price) =>
                            x.total_price =
                              TwoTier(x.day, x.total_tonnage, x.overtime_tonnage, x.Price)

\* C13 witness: 20 t of by-catch with a transfer of 8 t is emitted as 12 t
C13_Witness ==
  /\ ByCatchRan
  /\ \E j \in 1..Len(other_df) : other_df[j].total_tonnage = 8
  /\ \E i \in 1..Len(result.rows) :
       /\ result.rows[i].operation_type = "CCCS (By-Catch)"
       /\ result.rows[i].total_tonnage = 12
       /\ IsFin(result.rows[i].total_price)

(***************************************************************************)
(* Claims about the calendar, checked under SpecDays and SpecHolidays      *)
(***************************************************************************)
DayNameRan == pipeline \in {"bin_tipping", "by_catch"} /\ result.status = "ok"

\* the rows of the last run whose day name was derived from the date, as
\* pairs of date and day name
NamedDates(rows) ==
  IF pipeline = "bin_tipping"
  THEN { <<rows[i].Date, rows[i].day_name>> : i \in 1..Len(rows) }
  ELSE { <<rows[i].date, rows[i].day>> :
           i \in { k \in 1..Len(rows) : rows[k].operation_type = "Transfer of by-catch" } }

\* the weekday name of a date, counted from Monday 15/01/2024
NameOfDay(date) ==
  <<"Mon", "Tue", "Wed", "Thu", "Fri", "Sat", "Sun">>[((date - Date(2024, 1, 15)) % 7) + 1]

\* C14: a date in the holiday set the run has loaded is named "PH" whatever
\* its weekday (a holiday falling on a Sunday is "PH", never "Sun"); every
\* other date gets its three-letter weekday name.
C14_HolidayPrecedence ==
  DayNameRan =>
    \A x \in NamedDates(result.rows) :
      IF x[1] \in public_holiday_series(CURRENT_YEAR)
      THEN x[2] = "PH"
      ELSE x[2] = NameOfDay(x[1])

\* C14 witness: Sunday 08/12/2024, a fixed holiday, is named "PH"
C14_Witness ==
  /\ pipeline = "bin_tipping" /\ result.status = "ok"
  /\ NameOfDay(Date(2024, 12, 8)) = "Sun"
  /\ <<Date(2024, 12, 8), "PH">> \in NamedDates(result.rows)

HolidaysRan == pipeline = "get_public_holidays" /\ result.status = "ok"

\* Easter Sunday of the Gregorian calendar by Gauss's rule: 22 March plus d
\* days to the paschal full moon plus e days to the Sunday, with its two
\* exceptions
GregorianEaster(year) ==
  LET k == year \div 100
      M == (15 - ((13 + 8 * k) \div 25) + k - (k \div 4)) % 30
      N == (4 + k - (k \div 4)) % 7
      d == (19 * (year % 19) + M) % 30
      e == (2 * (year % 4) + 4 * (year % 7) + 6 * d + N) % 7
  IN  IF d = 29 /\ e = 6 THEN Date(year, 4, 19)
      ELSE IF d = 28 /\ e = 6 /\ ((11 * M + 11) % 30) < 19 THEN Date(year, 4, 18)
      ELSE Date(year, 3, 22) + d + e

\* the nine fixed holidays of a year
FixedHolidays(year) ==
  { Date(year, 1, 1), Date(year, 1, 2), Date(year, 5, 1), Date(year, 6, 18),
    Date(year, 6, 29), Date(year, 8, 15), Date(year, 11, 1), Date(year, 12, 8),
    Date(year, 12, 25) }

\* C15: for every year in 2000..3000 get_public_holidays(year) holds exactly
\* the nine fixed dates, Easter Sunday, Easter-2, Easter-1, Easter+1,
\* Easter+60 and the Monday after every fixed holiday that falls on a Sunday.
C15_HolidaySet ==
  HolidaysRan =>
    { result.rows[i] : i \in 1..Len(result.rows) } =
      FixedHolidays(CURRENT_YEAR)
        \cup { GregorianEaster(CURRENT_YEAR) + n : n \in {-2, -1, 0, 1, 60} }
        \cup { h + 1 : h \in { x \in FixedHolidays(CURRENT_YEAR) : NameOfDay(x) = "Sun" } }

\* C15 witness: the holidays of 2024 hold Easter Sunday 31/03/2024 and
\* Monday 09/12/2024, the day after the fixed holiday of Sunday 08/12/2024
C15_Witness ==
  /\ HolidaysRan
  /\ CURRENT_YEAR = 2024
  /\ \E i \in 1..Len(result.rows) : result.rows[i] = Date(2024, 3, 31)
  /\ \E i \in 1..Len(result.rows) : result.rows[i] = Date(2024, 12, 9)

\* the pipeline that ran last, run by a process started in another year
InYear(year) ==
  IF pipeline = "bin_tipping"
  THEN bin_tipping_frame(activity, price_sheet, year)
  ELSE by_catch_frame(activity, other_df, price_sheet, year, 1)

\* C16 (as claimed): the day name given to a date does not depend on the
\* year in which the program runs: a run started in any other year gives
\* every date of the sheet the same day name.
C16_RunYearIndependence ==
  DayNameRan =>
    \A year \in RunYears :
      NamedDates(InYear(year).rows) = NamedDates(result.rows)


(***************************************************************************)
(* The loaders.                                                            *)
(***************************************************************************)
AllDataframesReturned == final_results # Pending

C18_BoundedFanOut ==
  /\ fan_out.fetching <= SemaphoreLimit
  /\ fan_out.saving <= SemaphoreLimit

\* the part of C18 the semaphore of save_df_to_csv_async does bound
SavesBounded == fan_out.saving <= SemaphoreLimit


\* C19: a pipeline requested again yields the same table: every call of
\* get_dataframe returns the frame of the pipeline it names, and every call
\* of get_collection returns the frame of every pipeline of the collection,
\* however often the same collection and name were requested before.
C19_ReRunnable ==
  /\ request.method = "get_dataframe" =>
       request.outcome = Returned(<<request.collection, request.name>>)
  /\ request.method = "get_collection" =>
       request.outcome =
         Returned([n \in tasks[request.collection] |-> <<request.collection, n>>])


\* x >= 0 on Float64: false for NaN and for null
FNonNegative(x) == (x.k = "fin" /\ x.n >= 0) \/ (x.k = "inf" /\ x.n > 0)

\* C20: every salt row with tonnage >= 0 has normal >= 0, overtime_150 >= 0
\* and overtime_200 >= 0, the rows whose end_time is before start_time included.
C20_NonNegativeBuckets ==
  (SaltRan /\ SaltIn.tonnage >= 0) =>
    /\ FNonNegative(SaltOut.normal)
    /\ FNonNegative(SaltOut.overtime_150)
    /\ FNonNegative(SaltOut.overtime_200)

\* the same for the rows whose start_time and end_time differ
NonNegativeBucketsOfAnInterval ==
  (SaltRan /\ SaltIn.tonnage >= 0 /\ SaltIn.start_time # SaltIn.end_time) =>
    /\ FNonNegative(SaltOut.normal)
    /\ FNonNegative(SaltOut.overtime_150)
    /\ FNonNegative(SaltOut.overtime_200)


(***************************************************************************)
(* The sheet loader.                                                       *)
(***************************************************************************)
\* C21: a load whose fetch or parse fails returns the empty LazyFrame and
\* leaves data_cache as it was; a call for a key that is not in data_cache
\* sends a request, so a sheet that failed is fetched again; a load that
\* succeeds adds its frame under the key of its sheet and changes no other
\* entry.
C21_LoadFailureContract ==
  [][\A c \in 1..MaxCallers :
       /\ (calls[c].pc = "get" /\ calls'[c].pc = "returned"
             /\ calls'[c].outcome # "ok") =>
            /\ calls'[c].result = EmptyLazyFrame
            /\ data_cache' = data_cache
       /\ (calls[c].pc = "get" /\ calls'[c].pc = "returned"
             /\ calls'[c].outcome = "ok") =>
            /\ calls'[c].result.sheet = calls[c].sheet
            /\ DOMAIN data_cache' = DOMAIN data_cache \cup {cache_key(calls[c].sheet)}
            /\ data_cache'[cache_key(calls[c].sheet)] = calls'[c].result
            /\ \A k \in DOMAIN data_cache \ {cache_key(calls[c].sheet)} :
                 data_cache'[k] = data_cache[k]
       /\ (calls[c].pc # "get" /\ calls'[c] # calls[c]
             /\ cache_key(calls'[c].sheet) \notin DOMAIN data_cache) =>
            /\ calls'[c].pc = "get"
            /\ network'.fetched[cache_key(calls'[c].sheet)] =
                 network.fetched[cache_key(calls'[c].sheet)] + 1
     ]_vars

\* a sheet whose load failed, fetched a second time with no entry stored for it
C21_Witness ==
  \E c \in 1..MaxCallers :
    /\ calls[c].pc = "returned"
    /\ calls[c].outcome \in {"ClientError", "ComputeError", "Exception"}
    /\ calls[c].result = EmptyLazyFrame
    /\ cache_key(calls[c].sheet) \notin DOMAIN data_cache
    /\ network.fetched[cache_key(calls[c].sheet)] = 2
    /\ ~network.cleared


\* C26: in a run without clear_data_cache a sheet is fetched at most once,
\* also by callers that ask for it at the same time: two callers never have
\* a request for the same sheet in flight together, and all the callers a
\* sheet was loaded for hold the same frame.
C26_SingleFetchPerSheet ==
  ~network.cleared =>
    \A c1, c2 \in 1..MaxCallers :
      (c1 # c2 /\ calls[c1].pc # "idle" /\ calls[c1].sheet = calls[c2].sheet) =>
        /\ ~(calls[c1].pc = "get" /\ calls[c2].pc = "get")
        /\ (calls[c1].outcome \in {"ok", "cached"}
              /\ calls[c2].outcome \in {"ok", "cached"}) =>
             calls[c1].result = calls[c2].result


(***************************************************************************)
(* Printing.                                                               *)
(***************************************************************************)
\* C22: print_dataframe shows min_lenght (30) rows of a DataFrame of more
\* than max_lenght (50) rows, and every row of a DataFrame of at most 50.
C22_PrintRowLimit ==
  pipeline = "print_dataframe" =>
    Len(result.rows) = IF Len(activity) > 50 THEN 30 ELSE Len(activity)


(***************************************************************************)
(* The salt allocator across midnight.                                     *)
(***************************************************************************)
\* x <= y on finite Float64 values
FLessEq(x, y) == IsFin(x) /\ IsFin(y) /\ x.n * y.d <= y.n * x.d

\* C23: every salt interval with end_time < start_time is allocated as
\* crossing midnight, however late end_time is: the duration the shares are
\* taken of is (24:00 - start_time) + end_time, and the three shares add up
\* to the tonnage.
C23_EveryWrapCrossesMidnight ==
  (SaltRan /\ SaltIn.end_time < SaltIn.start_time) =>
    /\ salt_divisor(SaltIn) = (ONE_DAY - SaltIn.start_time) + SaltIn.end_time
    /\ FAdd(FAdd(SaltOut.normal, SaltOut.overtime_150), SaltOut.overtime_200)
         = Lit(SaltIn.tonnage)

\* the time of a special-day interval across midnight that lies between the
\* 16:00 cutoff (or start_time, if later) and midnight
CutoffToMidnight(r) ==
  ONE_DAY - (IF r.start_time > UPPER_BOUND_SPECIAL_DAY THEN r.start_time
                                                      ELSE UPPER_BOUND_SPECIAL_DAY)

ForkliftRan == pipeline = "forklift_salt" /\ result.status = "ok"

Minutes(hhmm) == hhmm.hh * 60 + hhmm.mm

\* C25: in every row of forklift_salt() the normal hours, the overtime for
\* normal services and the overtime for extended services add up to the
\* total duration, and none of the three is negative
C25_ForkliftConservation ==
  ForkliftRan =>
    \A i \in 1..Len(result.rows) :
      LET row == result.rows[i]
      IN  /\ Minutes(row.normal_hour_services)
               + Minutes(row.overtime_for_normal_services)
               + Minutes(row.overtime_for_extended_services)
             = Minutes(row.total_duration)
          /\ Minutes(row.normal_hour_services) >= 0
          /\ Minutes(row.overtime_for_normal_services) >= 0
          /\ Minutes(row.overtime_for_extended_services) >= 0

\* the same, on the special-day rows that salt() allocates across midnight
\* and that start before the cutoff
C25_SpecialDayAcrossMidnight ==
  ForkliftRan =>
    \A i \in 1..Len(result.rows) :
      LET row == result.rows[i]
      IN  (row.day \in SPECIAL_DAYS /\ row.end_time <= MORNING_CUTOFF
             /\ row.end_time < row.start_time
             /\ row.start_time < UPPER_BOUND_SPECIAL_DAY)
          => Minutes(row.normal_hour_services)
               + Minutes(row.overtime_for_normal_services)
               + Minutes(row.overtime_for_extended_services)
             = Minutes(row.total_duration)

\* ---------------------------------------------------------------- C27
ScowsRan == pipeline \in {"full_scows", "empty_scows"} /\ result.status = "ok"

\* the label of a movement, as the tiers are stated
RateTier(day_name, time_out) ==
  IF day_name \in SPECIAL_DAYS /\ time_out > 16 * 60 THEN "overtime 200%"
  ELSE IF (day_name \in SPECIAL_DAYS /\ time_out <= 16 * 60)
          \/ (day_name \notin SPECIAL_DAYS /\ time_out > 17 * 60)
  THEN "overtime 150%"
  ELSE "normal hours"

RateOf(label) ==
  IF label = "normal hours" THEN Lit(1)
  ELSE IF label = "overtime 150%" THEN F(3, 2) ELSE Lit(2)

\* the movements of the sheet that the pipeline that ran keeps
ScowMovements ==
  { i \in 1..Len(activity) :
      activity[i].status = (IF pipeline = "full_scows" THEN "Full" ELSE "Empty") }

\* date, customer, direction and tier of movement i, as the tiers are stated
ScowKeyOf(i) ==
  LET m == activity[i]
  IN  << ToDate(m.date), m.customer, m.movement_type = "Delivery",
         RateTier(add_day_name_col(ToDate(m.date), CURRENT_YEAR), ToTime(m.time_out)) >>

\* the same four of output row k
ScowRowKey(k) ==
  LET x == result.rows[k]
  IN  << x.date, x.customer,
         x.movement_type \in { "IPHS Delivery of Full Scows to IOT",
                               "IPHS Delivery of Empty Scows to IOT" },
         x.overtime >>

RECURSIVE ScowCount(_, _)
ScowCount(S, scows) ==
  IF S = {} THEN 0
  ELSE LET i == CHOOSE k \in S : TRUE IN scows[i] + ScowCount(S \ {i}, scows)

\* C27: every scow movement is in the row of exactly the label its day and
\* time_out give it (200% on a special day after 16:00, 150% on a special
\* day up to 16:00 or on a normal day after 17:00, normal hours otherwise);
\* no normal-day row is at 200%, no special-day row at the normal rate, and
\* total_price is the quantity times Price times the rate of the label
C27_ScowRateTier ==
  ScowsRan =>
    /\ { ScowRowKey(k) : k \in 1..Len(result.rows) }
         = { ScowKeyOf(i) : i \in ScowMovements }
    /\ \A key \in { ScowKeyOf(i) : i \in ScowMovements } :
         ScowCount({ k \in 1..Len(result.rows) : ScowRowKey(k) = key },
                   [k \in 1..Len(result.rows) |-> result.rows[k].num_of_scows])
         = ScowCount({ i \in ScowMovements : ScowKeyOf(i) = key },
                     [i \in 1..Len(activity) |-> activity[i].num_of_scows])
    /\ \A k \in 1..Len(result.rows) :
         LET x == result.rows[k]
             quantity == IF pipeline = "full_scows" THEN x.tonnage
                         ELSE Lit(x.num_of_scows)
         IN  /\ x.day_name \notin SPECIAL_DAYS => x.overtime # "overtime 200%"
             /\ x.day_name \in SPECIAL_DAYS => x.overtime # "normal hours"
             /\ x.total_price = FMul(FMul(quantity, x.Price), RateOf(x.overtime))

\* a Sunday or holiday movement that leaves at 16:00 sharp, billed at 150%
C27_Witness ==
  /\ ScowsRan
  /\ \E k \in 1..Len(result.rows) :
       /\ result.rows[k].day_name \in SPECIAL_DAYS
       /\ result.rows[k].start_time = 16 * 60
       /\ result.rows[k].overtime = "overtime 150%"
       /\ result.rows[k].total_price # Null

\* ---------------------------------------------------------------- C28
\* C28: no two rows of by_catch() come from the same by-catch group (day,
\* date, movement_type, customer, vessel, operation_type) of __by_catch,
\* whatever the number of transfers recorded for it
C28_NoDuplication ==
  ByCatchRan =>
    \A k1, k2 \in 1..Len(result.rows) :
      (/\ result.rows[k1].operation_type = "CCCS (By-Catch)"
       /\ result.rows[k2].operation_type = "CCCS (By-Catch)"
       /\ result.rows[k1].day = result.rows[k2].day
       /\ result.rows[k1].date = result.rows[k2].date
       /\ result.rows[k1].customer = result.rows[k2].customer
       /\ result.rows[k1].vessel = result.rows[k2].vessel)
      => k1 = k2

\* ---------------------------------------------------------------- C29
DispatchRan == pipeline = "dispatch_to_cargo" /\ result.status = "ok"

\* the price the sheet holds for a service
SheetPrice(service) ==
  LET j == CHOOSE k \in 1..Len(price_sheet) : price_sheet[k].Service = service
  IN  price_sheet[j].Price

\* the three fees a row shows, added up
ShownRate(x) ==
  FAdd(FAdd(x.truck_price, x.cccs_movement_fee), x.stevedores_on_cargo_fee)

\* C29: in every row of dispatch_to_cargo() the truck price, the CCCS
\* movement fee and the stevedores fee shown add up to the unit rate
\* total_price was computed at: truck + cargo loading + CCCS movement fee,
\* and for DARDANEL (truck - 4) + cargo loading with a CCCS fee of zero
C29_DispatchFeeConsistency ==
  DispatchRan =>
    \A i \in 1..Len(result.rows) :
      LET x == result.rows[i]
      IN  /\ x.total_price
               = TwoTier(x.day_name, x.total_tonnage, x.overtime_tonnage, ShownRate(x))
          /\ x.customer = "DARDANEL" =>
               /\ x.cccs_movement_fee = Lit(0)
               /\ ShownRate(x) = Lit((SheetPrice("Tipping Truck") - 4)
                                      + SheetPrice("Loading to Cargo"))
          /\ x.customer # "DARDANEL" =>
               ShownRate(x) = Lit(SheetPrice("Tipping Truck")
                                  + SheetPrice("Loading to Cargo")
                                  + SheetPrice("CCCS Movement in/out"))

\* a DARDANEL dispatch on a Sunday, 20 t of which 5 t overtime, with the
\* truck at 6 and the loading at 5: 15 * 1.5 * 7 + 5 * 2 * 7
C29_Witness ==
  /\ DispatchRan
  /\ \E i \in 1..Len(result.rows) :
       /\ result.rows[i].customer = "DARDANEL"
       /\ result.rows[i].day_name = "Sun"
       /\ result.rows[i].overtime_tonnage = 5
       /\ result.rows[i].truck_price = Lit(5)
       /\ result.rows[i].stevedores_on_cargo_fee = Lit(2)
       /\ result.rows[i].total_price = F(455, 2)

\* ---------------------------------------------------------------- C30
PtiRan == pipeline = "pti" /\ result.status = "ok"

\* the record of the same container that comes last before record i on the
\* sheet, 0 when i is the first of its container
PreviousRecord(i) ==
  LET earlier == { j \in 1..(i - 1) :
                     activity[j].container_number = activity[i].container_number }
  IN  IF earlier = {} THEN 0 ELSE CHOOSE j \in earlier : \A k \in earlier : k <= j

\* minutes from the end of record j to the start of record i
MinutesSince(j, i) ==
  str_to_datetime(activity[i].datetime_start).t
    - str_to_datetime(activity[j].datetime_end).t

PtiTotal(i) ==
  result.rows[i].total_price
    = FAdd(FAdd(result.rows[i].plugin_price, result.rows[i].electricity_price),
           result.rows[i].shifting_price)

====
